---------------------------- MODULE Spec2Model ----------------------------
(***************************************************************************)
(* Timezone-aware sales / expense analytics of the Greep Market back       *)
(* office: the timezone utilities, ExpenseService's time series and        *)
(* AnalyticsService's dashboard aggregation.                               *)
(*                                                                         *)
(* Time.  An instant is an integer number of ticks since 2023-01-01T00:00Z.*)
(* A tick is the smallest unit of time of the model: a day has TicksPerDay *)
(* ticks (a tick stands for three hours, so that the store's GMT+3 is one  *)
(* tick) and the code's "start + 1 day - 1 ms" is "start + TicksPerDay - 1".*)
(* A JavaScript Date is an instant; its local getters and its local        *)
(* constructor read the timezone of the server process (serverOffset),     *)
(* toLocaleDateString / $dateToString with a timeZone read the store's     *)
(* timezone (StoreOffset).                                                 *)
(***************************************************************************)
EXTENDS Integers, Sequences, FiniteSets, TLC

VARIABLES
    serverOffset,   \* UTC offset (ticks) of the server process' timezone
    now,            \* the clock: what new Date() returns
    transactions,   \* the transaction ledger (Transaction collection)
    expenses,       \* the expense ledger (Expense collection)
    cache,          \* the response cache: the unexpired entries
    call,           \* the last operation invoked, with its arguments
    result,         \* what that operation returned (or that it threw)
    clock,          \* Date.now() as the routes read it, in seconds
    requestCache,   \* the dashboard route's request deduplication cache
    handlers,       \* the dashboard requests awaiting their metrics
    requests        \* the dashboard requests so far and how each was served

routeVars == <<clock, requestCache, handlers, requests>>

vars == <<serverOffset, now, transactions, expenses, cache, call, result,
          clock, requestCache, handlers, requests>>

\* No dashboard request has reached the route.
RouteIdle ==
    /\ clock = 0
    /\ requestCache = {}
    /\ handlers = {}
    /\ requests = <<>>

---------------------------------------------------------------------------
(* Calendar *)

TicksPerDay == 8
StoreOffset == 1
BaseYear == 2023
NumYears == 4
\* The timezones the server process may run in: UTC, the store's own
\* timezone, and one east of the store.
ServerOffsets == {0, StoreOffset, StoreOffset + 1}

IsLeap(y) == (y % 4 = 0 /\ y % 100 # 0) \/ y % 400 = 0

DaysInMonth(y, m) ==
    IF m = 2 THEN (IF IsLeap(y) THEN 29 ELSE 28)
    ELSE IF m \in {4, 6, 9, 11} THEN 30 ELSE 31

NumMonths == NumYears * 12

\* Month index k counts months from January of BaseYear (k = 0).
MonthYear(k) == BaseYear + (k \div 12)
MonthNum(k) == (k % 12) + 1
MonthIdx(y, m) == (y - BaseYear) * 12 + (m - 1)

RECURSIVE MonthStartRec(_)
MonthStartRec(k) ==
    IF k = 0 THEN 0
    ELSE MonthStartRec(k - 1) + DaysInMonth(MonthYear(k - 1), MonthNum(k - 1))

\* First day (index from 2023-01-01 = 0) of every month of the calendar.
MonthStart == [k \in 0..NumMonths |-> MonthStartRec(k)]

LastDay == MonthStart[NumMonths] - 1

MonthOfDayTable ==
    [d \in 0..LastDay |->
        CHOOSE k \in 0..(NumMonths - 1) : MonthStart[k] <= d /\ d < MonthStart[k + 1]]

MonthOfDay(d) == MonthOfDayTable[d]

\* new Date(year, monthIndex, day) normalises an overflowing day or month
\* (day 0 is the last day of the previous month, Feb 31 is Mar 3).
DayIndex(y, m, d) == MonthStart[MonthIdx(y, m)] + d - 1

\* The calendar date of a day index, as the "YYYY-MM-DD" string's fields.
YMD(d) ==
    LET k == MonthOfDay(d)
    IN  [y |-> MonthYear(k), m |-> MonthNum(k), d |-> d - MonthStart[k] + 1]

\* The "YYYY-MM" string's fields.
YM(k) == [y |-> MonthYear(k), m |-> MonthNum(k)]

\* Local calendar day of an instant in a timezone of the given offset.
DayOf(t, offset) == (t + offset) \div TicksPerDay

\* Date#getFullYear/getMonth/getDate: the server process' local day.
ServerDay(t) == DayOf(t, serverOffset)

\* new Date(y, m, d, h, ...) : local wall-clock time of the server process.
MakeLocal(day, tick) == day * TicksPerDay + tick - serverOffset

EndOfDayTick == TicksPerDay - 1

\* formatDateForTimezone(date, tz): the YYYY-MM-DD of the instant as seen
\* in the store's timezone.
formatDateForTimezone(t) == YMD(DayOf(t, StoreOffset))

\* MongoDB $dateToString {format: '%Y-%m-%d', timezone: store tz}
DateToStringDay(t) == YMD(DayOf(t, StoreOffset))

\* MongoDB $dateToString {format: '%Y-%m', timezone: store tz}
DateToStringMonth(t) == YM(MonthOfDay(DayOf(t, StoreOffset)))

Ceil(a, b) == (a + b - 1) \div b

---------------------------------------------------------------------------
(* timezone.ts *)

getTodayRange ==
    LET today == ServerDay(now)
    IN  [start |-> MakeLocal(today, 0), end |-> MakeLocal(today, EndOfDayTick)]

getThisMonthRange ==
    LET k == MonthOfDay(ServerDay(now))
    IN  [start |-> MakeLocal(MonthStart[k], 0),
         end   |-> MakeLocal(MonthStart[k + 1] - 1, EndOfDayTick)]

getLastNDaysRange(days) ==
    [start |-> MakeLocal(ServerDay(now) - days, 0),
     end   |-> MakeLocal(ServerDay(now), EndOfDayTick)]

\* A month range whose end is built from day 31 of the month.
getMonthYearRangeDay31(month, year) ==
    IF month < 1 \/ month > 12 \/ year < 1900 \/ year > 2100
    THEN [ok |-> FALSE]
    ELSE [ok    |-> TRUE,
          start |-> MakeLocal(DayIndex(year, month, 1), 0),
          end   |-> MakeLocal(DayIndex(year, month, 31), EndOfDayTick)]

\* Throws (ok = FALSE) for a month outside 1..12 or a year outside 1900..2100.
getMonthYearRange(month, year) ==
    IF month < 1 \/ month > 12 \/ year < 1900 \/ year > 2100
    THEN [ok |-> FALSE]
    ELSE [ok    |-> TRUE,
          start |-> MakeLocal(DayIndex(year, month, 1), 0),
          end   |-> MakeLocal(DayIndex(year, month + 1, 0) , EndOfDayTick)]

---------------------------------------------------------------------------
(* Ledgers and aggregation helpers *)

RECURSIVE SumExp(_)
\* $group {_id: null, total: {$sum: '$amount'}} over a set of expenses
SumExp(S) ==
    IF S = {} THEN 0
    ELSE LET e == CHOOSE x \in S : TRUE IN e.amount + SumExp(S \ {e})

RECURSIVE SumTx(_)
\* $group {_id: null, total: {$sum: '$total_amount'}} over a set of transactions
SumTx(S) ==
    IF S = {} THEN 0
    ELSE LET t == CHOOSE x \in S : TRUE IN t.total_amount + SumTx(S \ {t})

RECURSIVE SortedSeq(_)
\* {$sort: {key: 1}} of a set of integers
SortedSeq(S) ==
    IF S = {} THEN <<>>
    ELSE LET lo == CHOOSE x \in S : \A y \in S : x <= y
         IN  <<lo>> \o SortedSeq(S \ {lo})

\* The filter {$gte: start, $lte: end} on a Date field
InWindow(t, start, end) == start <= t /\ t <= end

\* The status filter every sales query defaults to
CountedStatuses == {"completed", "pending"}

---------------------------------------------------------------------------
(* ExpenseService.getExpenseSeries *)

ThresholdDays == 31

ExpenseDailySeries(startDate, endDate, matched) ==
    LET startLocal == ServerDay(startDate)
        endLocal   == ServerDay(endDate)
        n          == IF endLocal >= startLocal THEN endLocal - startLocal + 1 ELSE 0
    IN  [i \in 1..n |->
            LET cursor == MakeLocal(startLocal + i - 1, 0)
                key    == formatDateForTimezone(cursor)
                grp    == {e \in matched : DateToStringDay(e.date) = key}
            IN  [period |-> key, amount |-> SumExp(grp), count |-> Cardinality(grp)]]

ExpenseMonthlySeries(matched) ==
    LET months == SortedSeq({MonthOfDay(DayOf(e.date, StoreOffset)) : e \in matched})
    IN  [i \in 1..Len(months) |->
            LET grp == {e \in matched : DateToStringMonth(e.date) = YM(months[i])}
            IN  [period |-> YM(months[i]), amount |-> SumExp(grp),
                 count |-> Cardinality(grp)]]

\* fail: the aggregation query throws; the catch block returns [].
getExpenseSeries(startDate, endDate, fail) ==
    LET matched  == {e \in expenses : InWindow(e.date, startDate, endDate)}
        daysDiff == Ceil(endDate - startDate, TicksPerDay)
    IN  IF fail THEN <<>>
        ELSE IF daysDiff <= ThresholdDays
             THEN ExpenseDailySeries(startDate, endDate, matched)
             ELSE ExpenseMonthlySeries(matched)

---------------------------------------------------------------------------
(* AnalyticsService.getSalesAnalyticsByDateRange *)

SalesDailySeries(startDate, endDate, matched) ==
    LET startLocal == DayOf(startDate, StoreOffset)
        endLocal   == DayOf(endDate, StoreOffset)
        n          == IF endLocal >= startLocal THEN endLocal - startLocal + 1 ELSE 0
    IN  [i \in 1..n |->
            LET cursor == MakeLocal(startLocal + i - 1, 0)
                key    == formatDateForTimezone(cursor)
                grp    == {t \in matched : DateToStringDay(t.created_at) = key}
            IN  [period |-> key, revenue |-> SumTx(grp),
                 transactions |-> Cardinality(grp)]]

SalesMonthlySeries(startDate, endDate, matched) ==
    LET first == MonthOfDay(DayOf(startDate, StoreOffset))
        last  == MonthOfDay(DayOf(endDate, StoreOffset))
        n     == IF last >= first THEN last - first + 1 ELSE 0
    IN  [i \in 1..n |->
            LET key == YM(first + i - 1)
                grp == {t \in matched : DateToStringMonth(t.created_at) = key}
            IN  [period |-> key, revenue |-> SumTx(grp),
                 transactions |-> Cardinality(grp)]]

\* fail: one of the queries throws; the catch block logs and rethrows.
getSalesAnalyticsByDateRange(startDate, endDate, fail) ==
    LET matched  == {t \in transactions :
                        /\ t.status \in CountedStatuses
                        /\ InWindow(t.created_at, startDate, endDate)}
        daysDiff == Ceil(endDate - startDate, TicksPerDay)
    IN  IF fail THEN [ok |-> FALSE]
        ELSE [ok                |-> TRUE,
              totalRevenue      |-> SumTx(matched),
              totalTransactions |-> Cardinality(matched),
              salesByPeriod     |->
                  IF daysDiff <= ThresholdDays
                  THEN SalesDailySeries(startDate, endDate, matched)
                  ELSE SalesMonthlySeries(startDate, endDate, matched)]

---------------------------------------------------------------------------
(* timezone.ts: parseDateRange *)

\* A date string "YYYY-MM-DD" (or a longer ISO string cut to its first ten
\* characters), as the numbers its three components convert to; nan holds
\* the components that Number() turns into NaN, empty says that the string
\* is '' or was not given.
DateStr(y, m, d) == [y |-> y, m |-> m, d |-> d, nan |-> {}, empty |-> FALSE]

\* A date string with non-numeric components.
NonNumeric(str, parts) == [str EXCEPT !.nan = parts]

\* The string that is '' or undefined.
EmptyStr == [y |-> 0, m |-> 0, d |-> 0, nan |-> {}, empty |-> TRUE]

\* Date#toISOString().split('T')[0]: the UTC calendar date of an instant.
toISODate(t) ==
    LET date == YMD(DayOf(t, 0))
    IN  DateStr(date.y, date.m, date.d)

\* parseDateInTimezone: throws (ok = FALSE) on a NaN or out-of-range
\* component (the day is checked against 1..31), otherwise the start
\* (00:00:00.000) or end (23:59:59.999) of that day in the server's local
\* time; new Date normalises a day past the end of the month.
parseDateInTimezone(str, boundary) ==
    IF \/ str.nan # {}
       \/ str.y < 1900 \/ str.y > 2100
       \/ str.m < 1 \/ str.m > 12
       \/ str.d < 1 \/ str.d > 31
    THEN [ok |-> FALSE]
    ELSE [ok |-> TRUE,
          date |-> MakeLocal(DayIndex(str.y, str.m, str.d),
                             IF boundary = "start" THEN 0 ELSE EndOfDayTick)]

\* parseDateRange: null (ok = FALSE) when a string is missing or when
\* parseDateInTimezone throws, which the catch block turns into null.
parseDateRange(startStr, endStr) ==
    IF startStr.empty \/ endStr.empty THEN [ok |-> FALSE]
    ELSE LET s == parseDateInTimezone(startStr, "start")
             e == parseDateInTimezone(endStr, "end")
         IN  IF s.ok /\ e.ok THEN [ok |-> TRUE, start |-> s.date, end |-> e.date]
             ELSE [ok |-> FALSE]

---------------------------------------------------------------------------
(* AnalyticsService: filters *)

NoDate == -1

\* DashboardFilters.  An absent field is 0, "" or NoDate (all falsy in the
\* code's tests); given = FALSE is a call without a filters object.
NoFilters ==
    [given |-> FALSE, month |-> 0, year |-> 0, dateRange |-> "",
     startDate |-> NoDate, endDate |-> NoDate,
     status |-> "", paymentMethod |-> "", orderSource |-> ""]

Null == [ok |-> FALSE]

Range(r) == [ok |-> TRUE, start |-> r.start, end |-> r.end]

\* The switch on filters.dateRange: a known token gives its range, any
\* other token returns null from getDateFilter.
DateRangeToken(token) ==
    CASE token = "today"      -> Range(getTodayRange)
      [] token = "this_month" -> Range(getThisMonthRange)
      [] token = "7d"         -> Range(getLastNDaysRange(7))
      [] token = "30d"        -> Range(getLastNDaysRange(30))
      [] token = "90d"        -> Range(getLastNDaysRange(90))
      [] token = "1y"         -> Range(getLastNDaysRange(365))
      [] OTHER                -> Null

\* getDateFilter: {$gte, $lte} or null.
getDateFilter(filters) ==
    LET my == getMonthYearRange(filters.month, filters.year)
    IN  IF ~filters.given THEN Null
        ELSE IF /\ filters.month # 0 /\ filters.year # 0
                /\ filters.startDate = NoDate /\ filters.endDate = NoDate
                /\ my.ok
        THEN Range(my)
        ELSE IF filters.dateRange # "" THEN DateRangeToken(filters.dateRange)
        ELSE IF filters.startDate # NoDate /\ filters.endDate # NoDate
        THEN parseDateRange(toISODate(filters.startDate), toISODate(filters.endDate))
        ELSE Null

\* STEP 1 of getDashboardMetrics: the primary period.
PrimaryPeriod(filters) ==
    LET f == getDateFilter(filters)
    IN  IF f.ok THEN [start |-> f.start, end |-> f.end]
        ELSE [start |-> now - 30 * TicksPerDay, end |-> now]

\* status / payment_method / order_source conditions of a match filter
StatusCond(filters, t) ==
    IF filters.given /\ filters.status # "" /\ filters.status # "all"
    THEN t.status = filters.status
    ELSE t.status \in CountedStatuses

PaymentCond(filters, t) ==
    (filters.given /\ filters.paymentMethod # "" /\ filters.paymentMethod # "all")
        => t.payment_method = filters.paymentMethod

OrderSourceCond(filters, t) ==
    (filters.given /\ filters.orderSource # "" /\ filters.orderSource # "all")
        => t.order_source = filters.orderSource

\* STEP 2 of getDashboardMetrics: transactionFilter, with created_at set to
\* the given window (the primary period, today or the month).
TransactionFilter(filters, window) ==
    {t \in transactions :
        /\ StatusCond(filters, t)
        /\ PaymentCond(filters, t)
        /\ InWindow(t.created_at, window.start, window.end)}

\* baseFilter of calculateGrowthRate and calculateVsPreviousPeriodMetrics
BaseFilter(filters, window) ==
    {t \in transactions :
        /\ StatusCond(filters, t)
        /\ PaymentCond(filters, t)
        /\ OrderSourceCond(filters, t)
        /\ InWindow(t.created_at, window.start, window.end)}

\* ExpenseService.getExpenseStats(...).totalAmount
ExpenseTotal(window) ==
    SumExp({e \in expenses : InWindow(e.date, window.start, window.end)})

---------------------------------------------------------------------------
(* AnalyticsService: percentage change and the comparison periods *)

Abs(x) == IF x < 0 THEN -x ELSE x

\* Math.round(n / d): the nearest integer, a tie going up.
RoundDiv(n, d) ==
    IF d > 0 THEN (2 * n + d) \div (2 * d)
    ELSE (2 * (-n) + (-d)) \div (2 * (-d))

\* Percentages are carried in hundredths of a percent (50.00 % is 5000), so
\* that "rounded to 2 decimals" is rounding to an integer.
Percent(p) == p * 100

\* Same computation with the rounding truncating toward zero.
calculatePercentageChangeTrunc(oldValue, newValue) ==
    IF oldValue = 0 THEN (IF newValue > 0 THEN Percent(100) ELSE 0)
    ELSE LET n == (newValue - oldValue) * Percent(100)
         IN  IF (n >= 0) = (oldValue > 0) THEN Abs(n) \div Abs(oldValue)
             ELSE -(Abs(n) \div Abs(oldValue))

calculatePercentageChange(oldValue, newValue) ==
    IF oldValue = 0 THEN (IF newValue > 0 THEN Percent(100) ELSE 0)
    ELSE RoundDiv((newValue - oldValue) * Percent(100), oldValue)

getDaysFromDateRange(dateRange) ==
    CASE dateRange = "7d"  -> 7
      [] dateRange = "30d" -> 30
      [] dateRange = "90d" -> 90
      [] dateRange = "1y"  -> 365
      [] OTHER             -> 30

\* The "default to monthly comparison" branch: this month against the
\* calendar month before it.
MonthlyComparison ==
    LET monthRange == getThisMonthRange
        k          == MonthOfDay(ServerDay(monthRange.start))
    IN  [ok |-> TRUE,
         current  |-> monthRange,
         previous |-> [start |-> MakeLocal(MonthStart[k - 1], 0),
                       end   |-> monthRange.start - 1]]

\* Custom range: the previous period of the same duration.
CustomComparison(filters) ==
    LET duration == filters.endDate - filters.startDate
        prevEnd  == filters.startDate - 1
    IN  [ok |-> TRUE,
         current  |-> [start |-> filters.startDate, end |-> filters.endDate],
         previous |-> [start |-> prevEnd - duration, end |-> prevEnd]]

\* Predefined range (7d, 30d, ...).
TokenComparison(filters) ==
    LET days    == getDaysFromDateRange(filters.dateRange)
        current == getLastNDaysRange(days)
    IN  [ok |-> TRUE,
         current  |-> current,
         previous |-> [start |-> getLastNDaysRange(days * 2).start,
                       end   |-> current.start - 1]]

\* A month/year comparison that steps one month back without the wrap to
\* December of the year before.
MonthYearComparisonNoWrap(filters) ==
    LET cur  == getMonthYearRange(filters.month, filters.year)
        prev == getMonthYearRange(filters.month - 1, filters.year)
    IN  IF cur.ok /\ prev.ok
        THEN [ok |-> TRUE,
              current  |-> [start |-> cur.start, end |-> cur.end],
              previous |-> [start |-> prev.start, end |-> prev.end]]
        ELSE [ok |-> FALSE]

\* Month/year filter: the calendar month before (December of the year
\* before for January).  getMonthYearRange may throw (ok = FALSE).
MonthYearComparison(filters) ==
    LET cur       == getMonthYearRange(filters.month, filters.year)
        prevMonth == IF filters.month - 1 < 1 THEN 12 ELSE filters.month - 1
        prevYear  == IF filters.month - 1 < 1 THEN filters.year - 1 ELSE filters.year
        prev      == getMonthYearRange(prevMonth, prevYear)
    IN  IF cur.ok /\ prev.ok
        THEN [ok |-> TRUE,
              current  |-> [start |-> cur.start, end |-> cur.end],
              previous |-> [start |-> prev.start, end |-> prev.end]]
        ELSE [ok |-> FALSE]

\* The periods calculateVsPreviousPeriodMetrics compares.
PreviousPeriodWindows(filters) ==
    IF filters.given /\ filters.month # 0 /\ filters.year # 0
    THEN MonthYearComparison(filters)
    ELSE IF filters.given /\ filters.startDate # NoDate /\ filters.endDate # NoDate
    THEN CustomComparison(filters)
    ELSE IF filters.given /\ filters.dateRange # "" THEN TokenComparison(filters)
    ELSE MonthlyComparison

\* The periods calculateGrowthRate compares.
GrowthRateWindows(filters) ==
    IF filters.given /\ filters.startDate # NoDate /\ filters.endDate # NoDate
    THEN CustomComparison(filters)
    ELSE IF filters.given /\ filters.dateRange # "" THEN TokenComparison(filters)
    ELSE MonthlyComparison

ZeroDeltas ==
    [salesVsPreviousPeriod |-> 0, expensesVsPreviousPeriod |-> 0,
     profitVsPreviousPeriod |-> 0, transactionsVsPreviousPeriod |-> 0]

\* Lines 1747-1757: the four deltas from the previous and current values.
PercentageDeltas(previousSales, previousTransactions, previousExpenses, currentSales, currentTransactions, currentExpenses) ==
    LET previousProfit == previousSales - previousExpenses
        currentProfit  == currentSales - currentExpenses
    IN  [salesVsPreviousPeriod |->
            calculatePercentageChange(previousSales, currentSales),
         expensesVsPreviousPeriod |->
            calculatePercentageChange(previousExpenses, currentExpenses),
         profitVsPreviousPeriod |->
            calculatePercentageChange(previousProfit, currentProfit),
         transactionsVsPreviousPeriod |->
            calculatePercentageChange(previousTransactions, currentTransactions)]

\* fail: a query of the function throws; the catch block returns zeros.
calculateVsPreviousPeriodMetrics(filters, currentSales, currentTransactions, currentExpenses, fail) ==
    LET w == PreviousPeriodWindows(filters)
    IN  IF fail \/ ~w.ok THEN ZeroDeltas
        ELSE LET prevTx == BaseFilter(filters, w.previous)
             IN  PercentageDeltas(SumTx(prevTx), Cardinality(prevTx),
                                  ExpenseTotal(w.previous),
                                  currentSales, currentTransactions, currentExpenses)

calculateGrowthRate(filters, fail) ==
    LET w == GrowthRateWindows(filters)
    IN  IF fail THEN 0
        ELSE calculatePercentageChange(SumTx(BaseFilter(filters, w.previous)),
                                       SumTx(BaseFilter(filters, w.current)))

---------------------------------------------------------------------------
(* AnalyticsService: ranked list, series and breakdowns of the dashboard *)

\* String.prototype.trim on the payment-method strings in use
Trim(str) ==
    CASE str = " Cash "        -> "Cash"
      [] str = " cash "        -> "cash"
      [] str = "Mobile Money " -> "Mobile Money"
      [] str = "mobile money " -> "mobile money"
      [] str = "  "            -> ""
      [] OTHER                 -> str

\* String.prototype.toLowerCase on the payment-method strings in use
ToLowerCase(str) ==
    CASE str = "CASH"          -> "cash"
      [] str = "Cash"          -> "cash"
      [] str = " Cash "        -> " cash "
      [] str = "Card"          -> "card"
      [] str = "POS"           -> "pos"
      [] str = "Mobile Money"  -> "mobile money"
      [] str = "Mobile Money " -> "mobile money "
      [] OTHER                 -> str

\* toString().trim().toLowerCase()
Lower(str) == ToLowerCase(Trim(str))

\* A normalisation that lower-cases without trimming.
normalizePaymentMethodUntrimmed(method) ==
    LET key == ToLowerCase(IF method = "" THEN "unknown" ELSE method)
    IN  CASE key \in {"card", "pos", "bank_card", "debit_card", "credit_card"} -> "pos"
          [] key \in {"transfer", "naira_transfer", "bank_transfer"} -> "naira_transfer"
          [] key \in {"crypto", "crypto_payment"} -> "crypto_payment"
          [] key \in {"cash_on_delivery", "cod", "cash"} -> "cash"
          [] OTHER -> IF key = "" THEN "unknown" ELSE key

\* A missing method (undefined, null or '') is "" here.
normalizePaymentMethod(method) ==
    LET key == Lower(IF method = "" THEN "unknown" ELSE method)
    IN  CASE key \in {"card", "pos", "bank_card", "debit_card", "credit_card"} -> "pos"
          [] key \in {"transfer", "naira_transfer", "bank_transfer"} -> "naira_transfer"
          [] key \in {"crypto", "crypto_payment"} -> "crypto_payment"
          [] key \in {"cash_on_delivery", "cod", "cash"} -> "cash"
          [] OTHER -> IF key = "" THEN "unknown" ELSE key

RECURSIVE SortByRevenue(_)
\* {$sort: {revenue: -1}}; the order of equal revenues is left to the
\* database and is fixed here by product id.
SortByRevenue(S) ==
    IF S = {} THEN <<>>
    ELSE LET top == CHOOSE x \in S : \A y \in S :
                        \/ x.revenue > y.revenue
                        \/ x.revenue = y.revenue /\ x.productId <= y.productId
         IN  <<top>> \o SortByRevenue(S \ {top})

FirstN(seq, n) == SubSeq(seq, 1, IF Len(seq) < n THEN Len(seq) ELSE n)

RECURSIVE SumItems(_, _)
SumItems(S, rev) ==
    IF S = {} THEN 0
    ELSE LET t == CHOOSE x \in S : TRUE
         IN  (IF rev THEN t.item.quantity * t.item.unit_price ELSE t.item.quantity)
             + SumItems(S \ {t}, rev)

\* $unwind items, $group by product_id, $sort by revenue, $limit
TopProductsOf(matched, limit) ==
    LET grouped == {[productId    |-> p,
                     quantitySold |-> SumItems({t \in matched : t.item.product_id = p}, FALSE),
                     revenue      |-> SumItems({t \in matched : t.item.product_id = p}, TRUE)]
                    : p \in {t.item.product_id : t \in matched}}
    IN  FirstN(SortByRevenue(grouped), limit)

\* matchFilter of getTopProducts
TopProductsMatch(filters) ==
    LET dateFilter == getDateFilter(filters)
    IN  {t \in transactions :
            /\ StatusCond(filters, t)
            /\ PaymentCond(filters, t)
            /\ OrderSourceCond(filters, t)
            /\ (filters.given /\ dateFilter.ok)
                    => InWindow(t.created_at, dateFilter.start, dateFilter.end)}

\* fail: the aggregation throws; the catch block returns [].
getTopProducts(limit, filters, fail) ==
    IF fail THEN <<>> ELSE TopProductsOf(TopProductsMatch(filters), limit)

RECURSIVE SortRecent(_)
\* .sort({created_at: -1}); equal instants are ordered by id here.
SortRecent(S) ==
    IF S = {} THEN <<>>
    ELSE LET top == CHOOSE x \in S : \A y \in S :
                        \/ x.created_at > y.created_at
                        \/ x.created_at = y.created_at /\ x.id >= y.id
         IN  <<[id |-> top.id, totalAmount |-> top.total_amount,
                paymentMethod |-> top.payment_method, createdAt |-> top.created_at]>>
             \o SortRecent(S \ {top})

\* getSalesByPeriod(storeId, period): the series of a predefined period.
SalesByPeriodRange(period) ==
    CASE period = "today"              -> getTodayRange
      [] period \in {"week", "7d"}     -> getLastNDaysRange(7)
      [] period \in {"month", "30d"}   -> getLastNDaysRange(30)
      [] period = "90d"                -> getLastNDaysRange(90)
      [] period = "1y"                 -> getLastNDaysRange(365)
      [] OTHER                         -> getLastNDaysRange(30)

\* $dateToString with '%Y-%m-%d %H:00' in the store's timezone
DateToStringHour(t) ==
    [y |-> YMD(DayOf(t, StoreOffset)).y, m |-> YMD(DayOf(t, StoreOffset)).m,
     d |-> YMD(DayOf(t, StoreOffset)).d, h |-> (t + StoreOffset) % TicksPerDay]

SalesByPeriodKey(period, t) ==
    CASE period = "today" -> DateToStringHour(t)
      [] period \in {"week", "7d", "month", "30d", "90d"} -> DateToStringDay(t)
      [] OTHER -> DateToStringMonth(t)

\* The earliest created_at among the transactions of `matched` that share
\* the period key of instant t (a sort key standing for the key's string).
Min2(period, t, matched) ==
    LET same == {u \in matched :
                    SalesByPeriodKey(period, u.created_at) = SalesByPeriodKey(period, t)}
    IN  CHOOSE a \in {u.created_at : u \in same} : \A b \in {u.created_at : u \in same} : a <= b

RECURSIVE SortedKeys(_)
\* {$sort: {period: 1}} of a set of period keys (by the first instant of each)
SortedKeys(S) ==
    IF S = {} THEN <<>>
    ELSE LET lo == CHOOSE x \in S : \A y \in S : x.at <= y.at
         IN  <<lo.key>> \o SortedKeys(S \ {lo})

getSalesByPeriod(period, fail) ==
    LET range   == SalesByPeriodRange(period)
        matched == {t \in transactions :
                        /\ t.status \in CountedStatuses
                        /\ InWindow(t.created_at, range.start, range.end)}
        fill    == period \in {"week", "7d", "month", "30d", "90d"}
        keys    == SortedKeys({[key |-> SalesByPeriodKey(period, t.created_at),
                                at  |-> Min2(period, t.created_at, matched)] : t \in matched})
        startLocal == ServerDay(range.start)
        endLocal   == ServerDay(range.end)
    IN  IF fail THEN <<>>
        ELSE IF ~fill
        THEN [i \in 1..Len(keys) |->
                LET grp == {t \in matched : SalesByPeriodKey(period, t.created_at) = keys[i]}
                IN  [period |-> keys[i], revenue |-> SumTx(grp),
                     transactions |-> Cardinality(grp)]]
        ELSE [i \in 1..(endLocal - startLocal + 1) |->
                LET key == formatDateForTimezone(MakeLocal(startLocal + i - 1, 0))
                    grp == {t \in matched : DateToStringDay(t.created_at) = key}
                IN  [period |-> key, revenue |-> SumTx(grp),
                     transactions |-> Cardinality(grp)]]

\* getSalesByMonth: the trailing twelve months, one entry per month with data.
SalesByMonthMatch(filters) ==
    LET today  == DayOf(now, StoreOffset)
        k      == MonthOfDay(today)
        start  == MakeLocal(MonthStart[k - 12], 0)
        end    == MakeLocal(today, EndOfDayTick)
    IN  {t \in transactions :
            /\ StatusCond(filters, t)
            /\ PaymentCond(filters, t)
            /\ OrderSourceCond(filters, t)
            /\ InWindow(t.created_at, start, end)}

getSalesByMonth(filters, fail) ==
    LET matched == SalesByMonthMatch(filters)
        months  == {MonthOfDay(DayOf(t.created_at, StoreOffset)) : t \in matched}
        keys    == SortedSeq(months)
    IN  IF fail THEN <<>>
        ELSE [i \in 1..Len(keys) |->
                LET grp == {t \in matched :
                                MonthOfDay(DayOf(t.created_at, StoreOffset)) = keys[i]}
                IN  [month        |-> YM(keys[i]),
                     sales        |-> SumTx(grp),
                     transactions |-> Cardinality(grp),
                     onlineSales  |-> SumTx({t \in grp : t.order_source = "online"}),
                     inStoreSales |-> SumTx({t \in grp : t.order_source \in {"in-store", ""}})]]

\* calculateVsYesterdayMetrics: today against the day before.
YesterdayFilter(filters, window) ==
    {t \in transactions :
        /\ IF filters.given THEN StatusCond(filters, t) ELSE t.status = "completed"
        /\ PaymentCond(filters, t)
        /\ OrderSourceCond(filters, t)
        /\ InWindow(t.created_at, window.start, window.end)}

calculateVsYesterdayMetrics(filters, fail) ==
    LET todayRange == getTodayRange
        yesterday  == [start |-> todayRange.start - TicksPerDay,
                       end   |-> todayRange.end - TicksPerDay]
        todaySalesTotal        == SumTx(YesterdayFilter(filters, todayRange))
        yesterdaySalesTotal    == SumTx(YesterdayFilter(filters, yesterday))
        todayExpensesTotal     == ExpenseTotal(todayRange)
        yesterdayExpensesTotal == ExpenseTotal(yesterday)
    IN  IF fail
        THEN [salesVsYesterday |-> 0, expensesVsYesterday |-> 0,
              profitVsYesterday |-> 0, transactionsVsYesterday |-> 0]
        ELSE [salesVsYesterday |->
                calculatePercentageChange(yesterdaySalesTotal, todaySalesTotal),
              expensesVsYesterday |->
                calculatePercentageChange(yesterdayExpensesTotal, todayExpensesTotal),
              profitVsYesterday |->
                calculatePercentageChange(yesterdaySalesTotal - yesterdayExpensesTotal,
                                          todaySalesTotal - todayExpensesTotal),
              transactionsVsYesterday |->
                calculatePercentageChange(
                    Cardinality(YesterdayFilter(filters, yesterday)),
                    Cardinality(YesterdayFilter(filters, todayRange)))]

\* A fold that assigns instead of adding: a key keeps the amount of the
\* group whose payment_method is the key itself.
PaymentMethodsDataAssigned(matched) ==
    [key \in {normalizePaymentMethod(t.payment_method) : t \in matched} |->
        SumTx({t \in matched : t.payment_method = key})]

\* paymentMethodsData: $group by payment_method, then the amounts of the
\* groups that normalise to the same key are added.
PaymentMethodsData(matched) ==
    [key \in {normalizePaymentMethod(t.payment_method) : t \in matched} |->
        SumTx({t \in matched : normalizePaymentMethod(t.payment_method) = key})]

\* orderSourcesData: $group by order_source; a missing source ("" here) is
\* keyed 'in-store' and ASSIGNED, so when both the missing-source group and
\* the 'in-store' group exist, the one the aggregation returns last wins
\* (nullLast says which).
OrderSourcesData(matched, nullLast) ==
    [key \in {IF t.order_source = "" THEN "in-store" ELSE t.order_source : t \in matched} |->
        LET named   == {t \in matched : t.order_source = key}
            missing == {t \in matched : t.order_source = ""}
        IN  IF key # "in-store" THEN SumTx(named)
            ELSE IF missing = {} THEN SumTx(named)
            ELSE IF named = {} THEN SumTx(missing)
            ELSE IF nullLast THEN SumTx(missing) ELSE SumTx(named)]

---------------------------------------------------------------------------
(* AnalyticsService.getDashboardMetrics *)

\* The queries of getDashboardMetrics that can throw, one per request at most.
FailPoints ==
    {"expenseStats", "expenseSeries", "transactionStats", "recentTransactions",
     "topProducts", "growthRate", "vsPreviousPeriod", "vsYesterday",
     "salesByPeriod", "salesByMonth", "paymentMethods", "orderSources"}

\* The queries whose rejection is not caught before the outer catch block of
\* getDashboardMetrics, which logs and rethrows.
Uncaught ==
    {"expenseStats", "transactionStats", "recentTransactions",
     "paymentMethods", "orderSources"}

\* STEP 3: monthRange, from month/year when both are given (may throw).
MonthRange(filters) ==
    IF filters.given /\ filters.month # 0 /\ filters.year # 0
    THEN getMonthYearRange(filters.month, filters.year)
    ELSE Range(getThisMonthRange)

\* salesByPeriodData: the series over the primary period when getDateFilter
\* resolved one, the predefined-period series for any other token, else
\* null, which the payload carries as undefined.
SalesByPeriodData(filters, fail) ==
    LET primaryDateFilter == getDateFilter(filters)
    IN  IF primaryDateFilter.ok
        THEN LET salesAnalytics ==
                    getSalesAnalyticsByDateRange(primaryDateFilter.start,
                                                 primaryDateFilter.end, fail)
             IN  IF salesAnalytics.ok
                 THEN [ok |-> TRUE, defined |-> TRUE,
                       series |-> salesAnalytics.salesByPeriod]
                 ELSE [ok |-> FALSE]
        ELSE IF filters.given /\ filters.dateRange # ""
        THEN [ok |-> TRUE, defined |-> TRUE,
              series |-> getSalesByPeriod(filters.dateRange, fail)]
        ELSE [ok |-> TRUE, defined |-> FALSE]

\* The expense window of the other dashboard variant: the explicit dates,
\* else the token's range or the month, else the trailing 30 days.
PrimaryExpensesOtherWindow(filters) ==
    LET dateFilter == getDateFilter(filters)
    IN  IF filters.given /\ filters.startDate # NoDate /\ filters.endDate # NoDate
        THEN ExpenseTotal([start |-> filters.startDate, end |-> filters.endDate])
        ELSE IF filters.given /\ filters.dateRange # ""
        THEN ExpenseTotal(IF dateFilter.ok THEN dateFilter ELSE getThisMonthRange)
        ELSE ExpenseTotal([start |-> now - 30 * TicksPerDay, end |-> now])

\* STEP 4: expenseStats.totalAmount over the SAME primary date range.
PrimaryExpenses(filters) == ExpenseTotal(PrimaryPeriod(filters))

\* The today filter of the other dashboard variant: the transaction filter
\* of the request, whose date range is the primary period.
TodayFilterPrimary(filters) == TransactionFilter(filters, PrimaryPeriod(filters))

\* STEP 5: todayFilter, the transaction filter with created_at replaced by
\* todayRange; the transactions todaySales is summed over.
TodayFilter(filters) == TransactionFilter(filters, getTodayRange)

\* The payload a cache miss assembles, or [ok |-> FALSE] when the function
\* throws.
getDashboardMetrics(filters, fail, nullLast) ==
    LET primary     == PrimaryPeriod(filters)
        monthRange  == MonthRange(filters)
        matched     == TransactionFilter(filters, primary)
        totalSales        == SumTx(matched)
        totalTransactions == Cardinality(matched)
        totalExpenses     == PrimaryExpenses(filters)
        byPeriod    == SalesByPeriodData(filters, fail = "salesByPeriod")
        vsPrevious  == calculateVsPreviousPeriodMetrics(filters, totalSales,
                            totalTransactions, totalExpenses, fail = "vsPreviousPeriod")
    IN  IF ~monthRange.ok \/ fail \in Uncaught \/ ~byPeriod.ok
        THEN [ok |-> FALSE]
        ELSE [ok                |-> TRUE,
              totalSales        |-> totalSales,
              totalTransactions |-> totalTransactions,
              growthRate        |-> calculateGrowthRate(filters, fail = "growthRate"),
              vsPreviousPeriod  |-> vsPrevious,
              vsYesterday       |-> calculateVsYesterdayMetrics(filters, fail = "vsYesterday"),
              todaySales        |-> SumTx(TodayFilter(filters)),
              monthlySales      |-> SumTx(TransactionFilter(filters, monthRange)),
              totalExpenses     |-> totalExpenses,
              monthlyExpenses   |-> ExpenseTotal(monthRange),
              netProfit         |-> totalSales - totalExpenses,
              topProducts       |-> getTopProducts(5, filters, fail = "topProducts"),
              paymentMethods    |-> PaymentMethodsData(matched),
              orderSources      |-> OrderSourcesData(matched, nullLast),
              recentTransactions |-> FirstN(SortRecent(matched), 10),
              salesByMonth      |-> getSalesByMonth(filters, fail = "salesByMonth"),
              salesByPeriod     |-> [defined |-> byPeriod.defined,
                                     series  |-> IF byPeriod.defined
                                                 THEN byPeriod.series ELSE <<>>],
              expensesByPeriod  |-> getExpenseSeries(primary.start, primary.end,
                                                     fail = "expenseSeries"),
              filterInfo        |-> [start |-> primary.start, end |-> primary.end]]

---------------------------------------------------------------------------
(* The response cache of getDashboardMetrics *)

\* Seconds a cached payload lives: the third argument of cache.set.
CacheTtl == 300

\* JSON.stringify(filters || {}): a missing filters argument and an empty
\* filters object have the same serialization.
Serialize(filters) == [filters EXCEPT !.given = TRUE]

\* cacheKeys.analytics(storeId, type, params): the key of an analytics
\* entry, made of its three arguments.
cacheKeysAnalytics(storeId, type, params) == <<storeId, type, params>>

\* A key that leaves the filters out.
CacheKeyStoreOnly(storeId, filters) ==
    cacheKeysAnalytics(IF storeId = "" THEN "default" ELSE storeId, "dashboard",
                       Serialize(NoFilters))

\* Line 172: cacheKeys.analytics(storeId || 'default', 'dashboard',
\* JSON.stringify(filters || {}))
CacheKey(storeId, filters) ==
    cacheKeysAnalytics(IF storeId = "" THEN "default" ELSE storeId, "dashboard",
                       Serialize(filters))

\* cache.get(key): the value stored under the key and not yet expired, else
\* null.
CacheGet(key) ==
    LET found == {e \in cache : e.key = key}
    IN  IF found = {} THEN Null
        ELSE [ok |-> TRUE, value |-> (CHOOSE e \in found : TRUE).value]

\* cache.set(key, value, ttl): the entry replaces the one of the same key and
\* expires ttl seconds later.  storeId and filters record the call that
\* stored the entry; nothing reads them but the properties.
CacheSet(key, value, ttl, storeId, filters) ==
    {e \in cache : e.key # key} \cup
        {[key |-> key, value |-> value, ttl |-> ttl, age |-> 0,
          storeId |-> storeId, filters |-> filters]}

\* A cache read whose rejection is not caught: the function throws.
CacheReadUnguarded(key, read) ==
    IF read = "fail" THEN [ok |-> TRUE, value |-> [ok |-> FALSE]] ELSE CacheGet(key)

\* Lines 173-182: the cached payload when there is one; a rejected read is
\* caught and the request goes on as after a miss.
CacheRead(key, read) ==
    IF read = "fail" THEN Null ELSE CacheGet(key)

\* Lines 574-581: the payload is stored for CacheTtl seconds; a rejected
\* write is caught.
CacheWrite(key, value, write, storeId, filters) ==
    IF write = "fail" THEN cache ELSE CacheSet(key, value, CacheTtl, storeId, filters)

\* The end of getDashboardMetrics after a miss: the assembled payload is
\* written to the cache and returned.  A request that throws stores nothing.
StoreAndReturn(cacheKey, dashboardMetrics, write, storeId, filters) ==
    [result |-> dashboardMetrics,
     cache  |-> IF dashboardMetrics.ok
                THEN CacheWrite(cacheKey, dashboardMetrics, write, storeId, filters)
                ELSE cache,
     hit |-> FALSE, aggregated |-> TRUE]

\* getDashboardMetrics as a whole: what it returns, the cache it leaves,
\* whether the payload came from the cache and whether the ledgers were
\* queried.
getDashboardMetricsWithCache(storeId, filters, fail, nullLast, read, write) ==
    LET cacheKey      == CacheKey(storeId, filters)
        cachedMetrics == CacheRead(cacheKey, read)
    IN  IF cachedMetrics.ok
        THEN [result |-> cachedMetrics.value, cache |-> cache,
              hit |-> TRUE, aggregated |-> FALSE]
        ELSE StoreAndReturn(cacheKey, getDashboardMetrics(filters, fail, nullLast),
                            write, storeId, filters)

---------------------------------------------------------------------------
(* Fixtures: instants and ledger records the specifications draw from *)

\* The UTC instant of tick `tick` of calendar day `day`.
At(day, tick) == day * TicksPerDay + tick

\* 2025-01-01
D0 == DayIndex(2025, 1, 1)

MaxLedger == 2

\* A transaction with one line item (quantity 1 at unit_price = total_amount).
Tx(id, at, amount, status, method, source, product) ==
    [id |-> id, created_at |-> at, total_amount |-> amount, status |-> status,
     payment_method |-> method, order_source |-> source,
     item |-> [product_id |-> product, quantity |-> 1, unit_price |-> amount]]

Idle == [op |-> "idle"]

\* Transactions that may be on the ledger: 100 at 2025-01-01T00:00Z (store
\* local 03:00), 200 on 2025-01-03, 50 at 2025-01-02T21:00Z (store local
\* 2025-01-03 00:00), a cancelled 400 and a sale in mid February.
SeriesTxPool ==
    { Tx(1, At(D0, 0),      100, "completed", "cash", "in-store", 1),
      Tx(2, At(D0 + 2, 3),  200, "pending",   "card", "online",   2),
      Tx(3, At(D0 + 1, 7),  50,  "completed", "cash", "in-store", 1),
      Tx(4, At(D0 + 2, 2),  400, "cancelled", "cash", "in-store", 2),
      Tx(5, At(D0 + 45, 2), 300, "completed", "pos",  "online",   1) }

SeriesExpPool ==
    { [id |-> 1, date |-> At(D0, 0),      amount |-> 30],
      [id |-> 2, date |-> At(D0 + 2, 7),  amount |-> 70],
      [id |-> 3, date |-> At(D0 + 1, 4),  amount |-> 20],
      [id |-> 4, date |-> At(D0 + 75, 2), amount |-> 90] }

\* Window bounds: midnights of 2025-01-01 in the server's candidate
\* timezones and a mid-day instant; ends of 2025-01-01, 2025-01-03,
\* 2025-02-01 and 2025-03-20 in those timezones.
SeriesStarts == {At(D0 - 1, 6), At(D0 - 1, 7), At(D0, 0), At(D0, 4)}
SeriesEnds ==
    {At(D0, 6), At(D0 + 2, 5), At(D0 + 2, 6), At(D0 + 2, 7),
     At(D0 + 30, 7), At(D0 + 31, 6), At(D0 + 78, 6)}

Bounded(pool) == {S \in SUBSET pool : Cardinality(S) <= MaxLedger}

---------------------------------------------------------------------------
(* Specification of the two series operations on a given ledger *)

InitSeries ==
    /\ serverOffset \in ServerOffsets
    /\ now = At(D0 + 80, 3)
    /\ transactions \in Bounded(SeriesTxPool)
    /\ expenses \in Bounded(SeriesExpPool)
    /\ cache = {}
    /\ call = Idle
    /\ result = <<>>
    /\ RouteIdle

\* The caller takes the result; the service is ready for the next call.
Return ==
    /\ call # Idle
    /\ call' = Idle
    /\ result' = <<>>
    /\ UNCHANGED <<routeVars, serverOffset, now, transactions, expenses, cache>>

GetExpenseSeries ==
    \E s \in SeriesStarts, e \in SeriesEnds, fail \in BOOLEAN :
        /\ call = Idle
        /\ call' = [op |-> "getExpenseSeries", start |-> s, end |-> e, fail |-> fail]
        /\ result' = getExpenseSeries(s, e, fail)
        /\ UNCHANGED <<routeVars, serverOffset, now, transactions, expenses, cache>>

GetSalesAnalyticsByDateRange ==
    \E s \in SeriesStarts, e \in SeriesEnds, fail \in BOOLEAN :
        /\ call = Idle
        /\ call' = [op |-> "getSalesAnalyticsByDateRange", start |-> s, end |-> e,
                    fail |-> fail]
        /\ result' = getSalesAnalyticsByDateRange(s, e, fail)
        /\ UNCHANGED <<routeVars, serverOffset, now, transactions, expenses, cache>>

NextSeries == GetExpenseSeries \/ GetSalesAnalyticsByDateRange \/ Return

SpecSeries == InitSeries /\ [][NextSeries]_vars

---------------------------------------------------------------------------
(* Specification of the dashboard on a ledger that grows while time passes *)

\* 2025-01-31T18:00Z: 21:00 of 2025-01-31 at the store
Now0 == At(DayIndex(2025, 1, 31), 6)

MaxTicks == 2

MaxRecorded == 1

\* The ledger at the start: sales of January 2025 (one of them pending, one
\* cancelled, one a legacy document without order_source, two with payment
\* methods that normalise to 'pos', the second of them pending on
\* 2025-01-30) and one sale of 2024-12-01.
DashboardTx ==
    { Tx(1, At(DayIndex(2025, 1, 15), 3), 100, "completed", "cash", "in-store", 1),
      Tx(2, At(DayIndex(2025, 1, 28), 2), 200, "pending", "pos_isbank_transfer",
         "online", 2),
      Tx(3, At(DayIndex(2024, 12, 1), 4), 60, "completed", "cash", "online", 3),
      Tx(4, At(DayIndex(2025, 1, 16), 4), 80, "completed", "card", "", 1),
      Tx(5, At(DayIndex(2025, 1, 20), 1), 500, "cancelled", "cash", "in-store", 2),
      Tx(6, At(DayIndex(2025, 1, 30), 4), 90, "pending", "pos", "in-store", 2) }

DashboardExp ==
    { [id |-> 1, date |-> At(DayIndex(2025, 1, 10), 2), amount |-> 30],
      [id |-> 2, date |-> At(DayIndex(2024, 12, 20), 5), amount |-> 45],
      [id |-> 3, date |-> At(DayIndex(2025, 1, 30), 7), amount |-> 15] }

\* DashboardFilters values of the requests.
WithDates(f, s, e) == [f EXCEPT !.startDate = s, !.endDate = e]

Given == [NoFilters EXCEPT !.given = TRUE]

TokenFilters ==
    {[Given EXCEPT !.dateRange = token] :
        token \in {"today", "this_month", "7d", "30d", "90d", "1y", "week"}}

MonthYearFilters ==
    {[Given EXCEPT !.month = 1, !.year = 2025],
     [Given EXCEPT !.month = 12, !.year = 2024],
     [Given EXCEPT !.month = 13, !.year = 2025]}

CustomStart == At(DayIndex(2025, 1, 10), 0)
CustomEnd == At(DayIndex(2025, 1, 20), 0)

CustomFilters ==
    {WithDates(Given, CustomStart, CustomEnd),
     WithDates(Given, At(DayIndex(2024, 12, 1), 0), At(DayIndex(2025, 1, 31), 0)),
     WithDates([Given EXCEPT !.dateRange = "custom"], CustomStart, CustomEnd),
     WithDates([Given EXCEPT !.dateRange = "30d"], CustomStart, CustomEnd),
     WithDates([Given EXCEPT !.month = 12, !.year = 2024], CustomStart, CustomEnd)}

DateFilters == {NoFilters, Given} \cup TokenFilters \cup MonthYearFilters \cup CustomFilters

AttributeFilters ==
    {[f EXCEPT !.status = st, !.paymentMethod = pm, !.orderSource = os] :
        f \in {Given, [Given EXCEPT !.dateRange = "30d"],
               [Given EXCEPT !.month = 1, !.year = 2025]},
        st \in {"", "all", "completed"}, pm \in {"", "cash"}, os \in {"", "online"}}

Filters == DateFilters \cup AttributeFilters

\* Requests with one failing query.
FailingFilters ==
    {NoFilters, [Given EXCEPT !.dateRange = "30d"], [Given EXCEPT !.dateRange = "week"],
     [Given EXCEPT !.month = 1, !.year = 2025]}

Init ==
    /\ serverOffset \in ServerOffsets
    /\ now = Now0
    /\ transactions = DashboardTx
    /\ expenses = DashboardExp
    /\ cache = {}
    /\ call = Idle
    /\ result = <<>>
    /\ RouteIdle

Recorded ==
    (Cardinality(transactions) - Cardinality(DashboardTx))
    + (Cardinality(expenses) - Cardinality(DashboardExp))

\* Time passes: a tick, by the end of which every cache entry has expired.
Tick ==
    /\ call = Idle
    /\ now < Now0 + MaxTicks
    /\ now' = now + 1
    /\ cache' = {}
    /\ UNCHANGED <<routeVars, serverOffset, transactions, expenses, call, result>>

\* A sale is saved: created_at defaults to the current instant, order_source
\* to 'in-store'.
RecordTransaction ==
    \E source \in {"in-store", "online"} :
        /\ call = Idle
        /\ Recorded < MaxRecorded
        /\ transactions' = transactions \cup
                {Tx(Cardinality(transactions) + 1, now, 40, "completed", "cash",
                    source, 3)}
        /\ UNCHANGED <<routeVars, serverOffset, now, expenses, cache, call, result>>

\* ExpenseService.createExpense with the current instant as expenseData.date
RecordExpense ==
    /\ call = Idle
    /\ Recorded < MaxRecorded
    /\ expenses' = expenses \cup
            {[id |-> Cardinality(expenses) + 1, date |-> now, amount |-> 25]}
    /\ UNCHANGED <<routeVars, serverOffset, now, transactions, cache, call, result>>

\* A call of getDashboardMetrics and its outcome r: the caller holds the
\* returned payload and the cache is what the call left.
DashboardRequest(storeId, filters, fail, nullLast, read, write, r) ==
    /\ call = Idle
    /\ call' = [op |-> "getDashboardMetrics", storeId |-> storeId,
                filters |-> filters, fail |-> fail, nullLast |-> nullLast,
                read |-> read, write |-> write,
                hit |-> r.hit, aggregated |-> r.aggregated]
    /\ result' = r.result
    /\ cache' = r.cache
    /\ UNCHANGED <<routeVars, serverOffset, now, transactions, expenses>>

\* A dashboard request while the cache server cannot be reached: the read
\* and the write are rejected and the payload is assembled from the ledgers.
GetDashboardMetrics ==
    \E filters \in Filters, fail \in FailPoints \cup {"none"}, nullLast \in BOOLEAN :
        /\ fail # "none" => (filters \in FailingFilters /\ ~nullLast)
        /\ DashboardRequest("", filters, fail, nullLast, "fail", "fail",
                getDashboardMetricsWithCache("", filters, fail, nullLast, "fail", "fail"))

Next == Tick \/ RecordTransaction \/ RecordExpense \/ GetDashboardMetrics \/ Return

Spec == Init /\ [][Next]_vars

---------------------------------------------------------------------------
(* Specification of the dashboard behind its response cache *)

MaxCached == 1

\* The callers: one without a store (storeId undefined) and one store.
StoreIds == {"", "store-1"}

CachedFilters == {NoFilters, Given, [Given EXCEPT !.month = 12, !.year = 2024]}

CacheModes == {"ok", "fail"}

\* Seconds pass, less than a tick: the entries age and those that reach
\* their ttl are gone.
AgeStep == CacheTtl \div 2

Elapse ==
    /\ call = Idle
    /\ cache # {}
    /\ cache' = {[e EXCEPT !.age = @ + AgeStep] :
                    e \in {c \in cache : c.age + AgeStep < c.ttl}}
    /\ UNCHANGED <<routeVars, serverOffset, now, transactions, expenses, call, result>>

\* A dashboard request with the cache server up or failing on the read or on
\* the write; the cache holds MaxCached entries at most.
GetDashboardMetricsCached ==
    \E storeId \in StoreIds, filters \in CachedFilters,
       fail \in {"none", "paymentMethods"},
       read \in CacheModes, write \in CacheModes :
        /\ DashboardRequest(storeId, filters, fail, FALSE, read, write,
                getDashboardMetricsWithCache(storeId, filters, fail, FALSE, read, write))
        /\ Cardinality(cache') <= MaxCached

\* The server runs in the store's timezone.
InitCache ==
    /\ serverOffset = StoreOffset
    /\ now = Now0
    /\ transactions = DashboardTx
    /\ expenses = DashboardExp
    /\ cache = {}
    /\ call = Idle
    /\ result = <<>>
    /\ RouteIdle

NextCache == Elapse \/ RecordTransaction \/ GetDashboardMetricsCached \/ Return

SpecCache == InitCache /\ [][NextCache]_vars

---------------------------------------------------------------------------
(* Specification of the dashboard on a ledger with a busy day *)

\* Payment methods as legacy documents carry them: aliases, other letter
\* case, a method outside the alias lists and a missing one.
BusyMethods ==
    <<"CASH", "Card", "transfer", "bank_transfer", "crypto", "cod", "",
      "mobile_money", "debit_card", "naira_transfer", "cash_on_delivery">>

\* Eleven more sales, of 11 to 21, on 2025-01-29.
BusyTx ==
    DashboardTx \cup
        {Tx(10 + i, At(DayIndex(2025, 1, 29), i % TicksPerDay), 10 + i, "completed",
            BusyMethods[i], "online", 4) : i \in 1..Len(BusyMethods)}

InitBusy ==
    /\ serverOffset \in ServerOffsets
    /\ now = Now0
    /\ transactions = BusyTx
    /\ expenses = DashboardExp
    /\ cache = {}
    /\ call = Idle
    /\ result = <<>>
    /\ RouteIdle

NextBusy == GetDashboardMetrics \/ Return

SpecBusy == InitBusy /\ [][NextBusy]_vars

---------------------------------------------------------------------------
(* Specification of the utility functions on given inputs *)

\* Payment methods as stored or as sent by a client: the names of the alias
\* lists, other letter case, padding, blank, missing and unlisted names.
MethodInputs ==
    {"card", "pos", "bank_card", "debit_card", "credit_card",
     "transfer", "naira_transfer", "bank_transfer", "crypto", "crypto_payment",
     "cash_on_delivery", "cod", "cash",
     "CASH", "Cash", "Card", "POS", " Cash ", " cash ", "  ", "",
     "pos_isbank_transfer", "mobile_money", "Mobile Money", "Mobile Money ",
     "unknown"}

NormalizePaymentMethod ==
    \E method \in MethodInputs :
        /\ call = Idle
        /\ call' = [op |-> "normalizePaymentMethod", method |-> method]
        /\ result' = normalizePaymentMethod(method)
        /\ UNCHANGED <<routeVars, serverOffset, now, transactions, expenses, cache>>

\* Date strings of a request: days of 2025 and of the leap year 2024, days
\* that the month does not have, components out of range, non-numeric
\* components and a missing string.
DateInputs ==
    {DateStr(2025, 1, 10), DateStr(2025, 2, 28), DateStr(2024, 2, 29),
     DateStr(2025, 2, 29), DateStr(2025, 2, 30), DateStr(2025, 4, 31),
     DateStr(2025, 1, 32), DateStr(2025, 1, 0), DateStr(2025, 0, 10),
     DateStr(2025, 13, 1), DateStr(1899, 6, 1), DateStr(2101, 1, 1),
     NonNumeric(DateStr(2025, 0, 10), {"m"}), NonNumeric(DateStr(0, 0, 0), {"y", "m", "d"}),
     EmptyStr}

ParseDateRange ==
    \E startDateStr \in DateInputs, endDateStr \in DateInputs :
        /\ call = Idle
        /\ call' = [op |-> "parseDateRange", startDateStr |-> startDateStr,
                    endDateStr |-> endDateStr]
        /\ result' = parseDateRange(startDateStr, endDateStr)
        /\ UNCHANGED <<routeVars, serverOffset, now, transactions, expenses, cache>>

GetTodayRange ==
    /\ call = Idle
    /\ call' = [op |-> "getTodayRange"]
    /\ result' = getTodayRange
    /\ UNCHANGED <<routeVars, serverOffset, now, transactions, expenses, cache>>

\* Months 0 to 13 of years inside and outside 1900..2100.
GetMonthYearRange ==
    \E month \in 0..13, year \in {1899, BaseYear, 2024, 2025, 2101} :
        /\ call = Idle
        /\ call' = [op |-> "getMonthYearRange", month |-> month, year |-> year]
        /\ result' = getMonthYearRange(month, year)
        /\ UNCHANGED <<routeVars, serverOffset, now, transactions, expenses, cache>>

NextUtil ==
    \/ Tick
    \/ NormalizePaymentMethod
    \/ ParseDateRange
    \/ GetTodayRange
    \/ GetMonthYearRange
    \/ Return

InitUtil ==
    /\ serverOffset \in ServerOffsets
    /\ now = Now0
    /\ transactions = {}
    /\ expenses = {}
    /\ cache = {}
    /\ call = Idle
    /\ result = <<>>
    /\ RouteIdle

SpecUtil == InitUtil /\ [][NextUtil]_vars


---------------------------------------------------------------------------
(* Specification of the expense ledger: createExpense and updateExpense *)

MaxExpenses == 2

\* A number that is a quotient n / d, and the missing number.
Quotient(n, d) == [defined |-> TRUE, n |-> n, d |-> d]

Undefined == [defined |-> FALSE, n |-> 0, d |-> 1]

\* expenseSchema.pre('save'): cost_per_unit is set to amount / quantity when
\* quantity and amount are both truthy and quantity > 0, and left as it is
\* otherwise.  (month_year and updated_at are not part of the documents
\* here.)
PreSave(doc) ==
    IF doc.quantity # 0 /\ doc.quantity > 0 /\ doc.amount # 0
    THEN [doc EXCEPT !.cost_per_unit = Quotient(doc.amount, doc.quantity)]
    ELSE doc

\* Model.findByIdAndUpdate(id, updateData, {new: true}): the fields of
\* updateData are written to the stored document; no save middleware runs.
\* A field that updateData does not carry is -1 here.
FindByIdAndUpdate(doc, updateData) ==
    [doc EXCEPT !.quantity = IF updateData.quantity = -1 THEN @ ELSE updateData.quantity,
                !.amount   = IF updateData.amount = -1 THEN @ ELSE updateData.amount]

\* updateExpense: the stored document after the update.
UpdatedExpense(doc, updateData) ==
    FindByIdAndUpdate(doc, updateData)

\* quantity and amount of a request; the schema asks for both to be >= 0.
ExpenseQuantities == {0, 4, 10}

ExpenseAmounts == {0, 100, 125}

InitExpense ==
    /\ serverOffset \in ServerOffsets
    /\ now = Now0
    /\ transactions = {}
    /\ expenses = {}
    /\ cache = {}
    /\ call = Idle
    /\ result = <<>>
    /\ RouteIdle

\* createExpense: new Expense({...expenseData}) and expense.save().
CreateExpense ==
    \E quantity \in ExpenseQuantities, amount \in ExpenseAmounts :
        LET expense == PreSave([id |-> Cardinality(expenses) + 1, date |-> now,
                                quantity |-> quantity, amount |-> amount,
                                cost_per_unit |-> Undefined])
        IN  /\ call = Idle
            /\ Cardinality(expenses) < MaxExpenses
            /\ expenses' = expenses \cup {expense}
            /\ call' = [op |-> "createExpense", quantity |-> quantity,
                        amount |-> amount]
            /\ result' = expense
            /\ UNCHANGED <<routeVars, serverOffset, now, transactions, cache>>

\* updateExpense(expenseId, updateData) on a stored expense.
UpdateExpense ==
    \E doc \in expenses, quantity \in ExpenseQuantities \cup {-1},
       amount \in ExpenseAmounts \cup {-1} :
        LET updateData == [quantity |-> quantity, amount |-> amount]
            expense    == UpdatedExpense(doc, updateData)
        IN  /\ call = Idle
            /\ expenses' = (expenses \ {doc}) \cup {expense}
            /\ call' = [op |-> "updateExpense", expenseId |-> doc.id,
                        updateData |-> updateData]
            /\ result' = expense
            /\ UNCHANGED <<routeVars, serverOffset, now, transactions, cache>>

NextExpense == CreateExpense \/ UpdateExpense \/ Return

SpecExpense == InitExpense /\ [][NextExpense]_vars

---------------------------------------------------------------------------
(* PriceMonitoringService.checkPriceChange *)

\* Prices are whole cents; a computed number is a quotient of integers.
Threshold == 1

\* The greatest common divisor of two naturals, and a quotient in lowest
\* terms (the same number, written with small integers).
RECURSIVE Gcd(_, _)
Gcd(a, b) == IF b = 0 THEN a ELSE Gcd(b, a % b)

Lowest(n, d) == Quotient(n \div Gcd(Abs(n), d), d \div Gcd(Abs(n), d))

\* costPerUnit = quantity > 0 ? amount / quantity : 0
CostPerUnit(expense) ==
    IF expense.quantity > 0 THEN Quotient(expense.amount, expense.quantity)
    ELSE Quotient(0, 1)

\* (Math.abs(costPerUnit - currentCostPrice) / currentCostPrice) * 100
PriceChangePercentage(costPerUnit, currentCostPrice) ==
    Quotient(Abs(costPerUnit.n - currentCostPrice * costPerUnit.d) * 100,
             currentCostPrice * costPerUnit.d)

\* priceChangePercentage < threshold
BelowThreshold(percentage) == percentage.n < Threshold * percentage.d

\* A suggestion that applies the markup to the product's current cost.
SuggestedFromCurrentCost(costPerUnit, markup, currentCostPrice) ==
    Quotient(currentCostPrice * (100 * markup.d + markup.n), 100 * markup.d)

\* costPerUnit * (1 + markupPercentage / 100)
SuggestedSellingPrice(costPerUnit, markup, currentCostPrice) ==
    Quotient(costPerUnit.n * (100 * markup.d + markup.n),
             costPerUnit.d * 100 * markup.d)

\* checkPriceChange for an expense and the outcome of findMatchingProduct
\* (match.matched FALSE: no product).  A cost_price or markup_percentage
\* that is not set is 0.
checkPriceChange(expense, match) ==
    LET costPerUnit      == CostPerUnit(expense)
        product          == match.product
        currentCostPrice == product.cost_price
        percentage       == PriceChangePercentage(costPerUnit, currentCostPrice)
        markup           == IF product.markup_percentage > 0
                            THEN Quotient(product.markup_percentage, 1)
                            ELSE Lowest((product.price - currentCostPrice) * 100,
                                        currentCostPrice)
        none             == [hasPriceChange |-> FALSE, matched |-> FALSE,
                             newCostPrice |-> costPerUnit,
                             suggestedSellingPrice |-> Undefined,
                             markupPercentage |-> Undefined,
                             priceChangePercentage |-> Undefined]
    IN  IF costPerUnit.n <= 0 THEN none
        ELSE IF ~match.matched THEN none
        ELSE IF currentCostPrice = 0
        THEN [none EXCEPT !.hasPriceChange = TRUE, !.matched = TRUE,
                  !.suggestedSellingPrice =
                        IF product.markup_percentage > 0
                        THEN SuggestedSellingPrice(costPerUnit,
                                Quotient(product.markup_percentage, 1), 0)
                        ELSE Quotient(product.price, 1),
                  !.markupPercentage = Quotient(product.markup_percentage, 1)]
        ELSE IF BelowThreshold(percentage)
        THEN [none EXCEPT !.matched = TRUE, !.priceChangePercentage = percentage]
        ELSE [none EXCEPT !.hasPriceChange = TRUE, !.matched = TRUE,
                  !.suggestedSellingPrice =
                        SuggestedSellingPrice(costPerUnit, markup, currentCostPrice),
                  !.markupPercentage = markup,
                  !.priceChangePercentage = percentage]

\* Products of the store: 10.00 or 100.00 cost (or none set), sold at 15.00
\* or 150.00, with a markup of 50 percent or none set.
Products ==
    [cost_price : {0, 1000, 10000}, price : {1500, 15000}, markup_percentage : {0, 50}]

NoMatch == [matched |-> FALSE, product |-> [cost_price |-> 0, price |-> 0, markup_percentage |-> 0]]

\* Expenses: 12.50, 10.00, 10.05, 10.10, 10.11 or 9.90 a unit by tens, and
\* single units around 100.00.
PricedExpenses ==
    [quantity : {0, 1, 10}, amount : {0, 12500, 10000, 10050, 10100, 10110, 9900, 9890}]

CheckPriceChange ==
    \E expense \in PricedExpenses,
       match \in {NoMatch} \cup {[matched |-> TRUE, product |-> p] : p \in Products} :
        /\ call = Idle
        /\ call' = [op |-> "checkPriceChange", expense |-> expense, match |-> match]
        /\ result' = checkPriceChange(expense, match)
        /\ UNCHANGED <<routeVars, serverOffset, now, transactions, expenses, cache>>

NextPrice == CheckPriceChange \/ Return

SpecPrice == InitExpense /\ [][NextPrice]_vars

---------------------------------------------------------------------------
(* Specification of the dashboard of a store with a year of sales *)

\* The ledger and one sale in each of the thirteen months before: the 15th
\* from 2024-01 to 2024-12 and 2023-12-31.
YearTx ==
    DashboardTx \cup
        {Tx(20 + m, At(DayIndex(2024, m, 15), 3), 10 + m, "completed", "cash",
            "in-store", 1) : m \in 1..12} \cup
        {Tx(20, At(DayIndex(2023, 12, 31), 3), 10, "completed", "cash", "in-store", 1)}

InitYear ==
    /\ serverOffset \in ServerOffsets
    /\ now = Now0
    /\ transactions = YearTx
    /\ expenses = DashboardExp
    /\ cache = {}
    /\ call = Idle
    /\ result = <<>>
    /\ RouteIdle

NextYear == GetDashboardMetrics \/ Return

SpecYear == InitYear /\ [][NextYear]_vars

---------------------------------------------------------------------------
(* GET /dashboard: the route in front of getDashboardMetrics *)

\* CACHE_DURATION = 5 * 1000 ms, in seconds.
CACHE_DURATION == 5

MaxRequests == 3
MaxClock == 6

\* The authenticated caller, its store, and the query strings it
\* sends (dateRange "" is a query without dateRange).
RouteStoreId == "store-1"
RouteUsers == {"user-1"}
RouteQueries == {[dateRange |-> ""], [dateRange |-> "7d"]}

\* `${storeId}-${JSON.stringify(req.query)}-${req.user?.id}`
RequestCacheKey(storeId, query, userId) == <<storeId, query, userId>>

\* The filter object of the route: dateRange defaults to '30d', status to
\* 'all'; the other fields are undefined.
RouteFilters(query) ==
    [Given EXCEPT !.dateRange = IF query.dateRange = "" THEN "30d" ELSE query.dateRange,
                  !.status = "all"]

\* A second passes.  The entries of the response cache age with it.
ClockTick ==
    /\ clock < MaxClock
    /\ clock' = clock + 1
    /\ cache' = {[e EXCEPT !.age = @ + 1] : e \in {c \in cache : c.age + 1 < c.ttl}}
    /\ UNCHANGED <<requestCache, handlers, requests,
                   serverOffset, now, transactions, expenses, call, result>>

\* The handler up to its await: a recent entry of requestCache answers the
\* request; otherwise an expired entry is deleted, getDashboardMetrics is
\* called and the handler waits for the metrics.
DashboardArrive ==
    \E query \in RouteQueries, userId \in RouteUsers :
        LET cacheKey == RequestCacheKey(RouteStoreId, query, userId)
            cached   == {e \in requestCache : e.key = cacheKey}
            recent   == {e \in cached : clock - e.timestamp < CACHE_DURATION}
        IN  /\ Len(requests) < MaxRequests
            /\ IF recent # {}
               THEN /\ requests' = Append(requests,
                            [key |-> cacheKey, at |-> clock, served |-> "requestCache"])
                    /\ UNCHANGED <<requestCache, handlers>>
               ELSE /\ requestCache' = requestCache \ cached
                    /\ handlers' = handlers \cup
                            {[id |-> Len(requests) + 1, key |-> cacheKey, now |-> clock,
                              storeId |-> RouteStoreId, filters |-> RouteFilters(query)]}
                    /\ requests' = Append(requests,
                            [key |-> cacheKey, at |-> clock, served |-> "getDashboardMetrics"])
            /\ UNCHANGED <<clock, serverOffset, now, transactions, expenses,
                           cache, call, result>>

\* The rest of handler h once getDashboardMetrics settled with r: the
\* response is stored under the handler's key with the time of its arrival;
\* a rejection is answered with status 500 and stores nothing.
DashboardSettle(h, r) ==
    /\ handlers' = handlers \ {h}
    /\ cache' = r.cache
    /\ requestCache' =
            IF r.result.ok
            THEN {e \in requestCache : e.key # h.key} \cup
                     {[key |-> h.key, timestamp |-> h.now,
                       response |-> [success |-> TRUE, data |-> r.result]]}
            ELSE requestCache
    /\ UNCHANGED <<clock, requests, serverOffset, now, transactions, expenses,
                   call, result>>

DashboardComplete ==
    \E h \in handlers, fail \in {"none", "paymentMethods"} :
        DashboardSettle(h,
            getDashboardMetricsWithCache(h.storeId, h.filters, fail, FALSE, "ok", "ok"))

NextRoute == ClockTick \/ DashboardArrive \/ DashboardComplete

SpecRoute == InitCache /\ [][NextRoute]_vars

---------------------------------------------------------------------------
(* Claims about the series *)

\* What a gapless daily expense series over [startDate, endDate] is: one
\* entry per calendar day of the store's timezone, from the day of startDate
\* to the day of endDate, with the sums of the expenses of the window that
\* fall on that day.
GaplessExpenseDays(startDate, endDate) ==
    LET first == DayOf(startDate, StoreOffset)
        last  == DayOf(endDate, StoreOffset)
        inWin == {e \in expenses : InWindow(e.date, startDate, endDate)}
    IN  [i \in 1..(last - first + 1) |->
            LET grp == {e \in inWin : DayOf(e.date, StoreOffset) = first + i - 1}
            IN  [period |-> YMD(first + i - 1), amount |-> SumExp(grp),
                 count |-> Cardinality(grp)]]

GaplessExpenseMonths(startDate, endDate) ==
    LET first == MonthOfDay(DayOf(startDate, StoreOffset))
        last  == MonthOfDay(DayOf(endDate, StoreOffset))
        inWin == {e \in expenses : InWindow(e.date, startDate, endDate)}
    IN  [i \in 1..(last - first + 1) |->
            LET grp == {e \in inWin :
                            MonthOfDay(DayOf(e.date, StoreOffset)) = first + i - 1}
            IN  [period |-> YM(first + i - 1), amount |-> SumExp(grp),
                 count |-> Cardinality(grp)]]

GaplessSalesDays(startDate, endDate) ==
    LET first == DayOf(startDate, StoreOffset)
        last  == DayOf(endDate, StoreOffset)
        inWin == {t \in transactions :
                    t.status \in CountedStatuses /\ InWindow(t.created_at, startDate, endDate)}
    IN  [i \in 1..(last - first + 1) |->
            LET grp == {t \in inWin : DayOf(t.created_at, StoreOffset) = first + i - 1}
            IN  [period |-> YMD(first + i - 1), revenue |-> SumTx(grp),
                 transactions |-> Cardinality(grp)]]

IsDailyWindow(startDate, endDate) ==
    startDate <= endDate /\ Ceil(endDate - startDate, TicksPerDay) <= ThresholdDays

\* C2: for every window of at most 31 days, getExpenseSeries returns exactly
\* one entry per store-local calendar day from the day of start to the day
\* of end, ascending, a day without expenses carrying amount 0 and count 0.
C2_DailyExpenseSeriesGapless ==
    (/\ call.op = "getExpenseSeries"
     /\ ~call.fail
     /\ IsDailyWindow(call.start, call.end))
    => result = GaplessExpenseDays(call.start, call.end)

\* C3: for every window longer than 31 days, getExpenseSeries returns one
\* entry per calendar month from the month of start to the month of end,
\* the months without expenses included with amount 0 and count 0.
C3_MonthlyExpenseSeriesGapless ==
    (/\ call.op = "getExpenseSeries"
     /\ ~call.fail
     /\ Ceil(call.end - call.start, TicksPerDay) > ThresholdDays)
    => result = GaplessExpenseMonths(call.start, call.end)

\* C5: in the daily branch of getSalesAnalyticsByDateRange the series is one
\* bucket per store-local day of the window, each with the revenue and the
\* number of the pending or completed transactions of the window created on
\* that store-local day, and zeros for a day without transactions.
C5_DailySalesBuckets ==
    (/\ call.op = "getSalesAnalyticsByDateRange"
     /\ ~call.fail
     /\ IsDailyWindow(call.start, call.end))
    => result.salesByPeriod = GaplessSalesDays(call.start, call.end)

---------------------------------------------------------------------------
(* Specification of the percentage computations on given numbers *)

MaxPct == 12

\* Old and new values: small values of both signs and the hundreds.
PctValues == (-MaxPct .. MaxPct) \cup {50, 100, 150, 200}

DeltaValues == {0, 100, 150}

InitPct ==
    /\ serverOffset \in ServerOffsets
    /\ now = Now0
    /\ transactions = {}
    /\ expenses = {}
    /\ cache = {}
    /\ call = Idle
    /\ result = <<>>
    /\ RouteIdle

CalculatePercentageChange ==
    \E oldValue \in PctValues, newValue \in PctValues :
        /\ call = Idle
        /\ call' = [op |-> "calculatePercentageChange",
                    oldValue |-> oldValue, newValue |-> newValue]
        /\ result' = calculatePercentageChange(oldValue, newValue)
        /\ UNCHANGED <<routeVars, serverOffset, now, transactions, expenses, cache>>

\* The end of calculateVsPreviousPeriodMetrics: the four deltas from the
\* totals of the two periods.
ComputePercentageDeltas ==
    \E ps \in DeltaValues, pt \in DeltaValues, pe \in DeltaValues,
       cs \in DeltaValues, ct \in DeltaValues, ce \in DeltaValues :
        /\ call = Idle
        /\ call' = [op |-> "percentageDeltas",
                    previousSales |-> ps, previousTransactions |-> pt,
                    previousExpenses |-> pe, currentSales |-> cs,
                    currentTransactions |-> ct, currentExpenses |-> ce]
        /\ result' = PercentageDeltas(ps, pt, pe, cs, ct, ce)
        /\ UNCHANGED <<routeVars, serverOffset, now, transactions, expenses, cache>>

NextPct == CalculatePercentageChange \/ ComputePercentageDeltas \/ Return

SpecPct == InitPct /\ [][NextPct]_vars

---------------------------------------------------------------------------
(* Claims about the dashboard *)

\* A finished dashboard request that returned a payload.
Answered == call.op = "getDashboardMetrics" /\ result.ok

\* The transactions a request counts in a window: status (pending or
\* completed unless one status is asked for) and payment method.
CountedIn(filters, start, end) ==
    {t \in transactions :
        /\ IF filters.given /\ filters.status \notin {"", "all"}
           THEN t.status = filters.status
           ELSE t.status \in {"completed", "pending"}
        /\ (filters.given /\ filters.paymentMethod \notin {"", "all"})
                => t.payment_method = filters.paymentMethod
        /\ start <= t.created_at /\ t.created_at <= end}

SpentIn(start, end) == {e \in expenses : start <= e.date /\ e.date <= end}

GaplessSalesMonths(startDate, endDate) ==
    LET first == MonthOfDay(DayOf(startDate, StoreOffset))
        last  == MonthOfDay(DayOf(endDate, StoreOffset))
        inWin == {t \in transactions :
                    t.status \in CountedStatuses /\ InWindow(t.created_at, startDate, endDate)}
    IN  [i \in 1..(last - first + 1) |->
            LET grp == {t \in inWin :
                            MonthOfDay(DayOf(t.created_at, StoreOffset)) = first + i - 1}
            IN  [period |-> YM(first + i - 1), revenue |-> SumTx(grp),
                 transactions |-> Cardinality(grp)]]

\* C4: the salesByPeriod series of every payload covers the primary period:
\* one entry per store-local day when the period is at most 31 days, one per
\* calendar month otherwise, without gaps.
C4_SalesByPeriodCoversPrimary ==
    (Answered /\ call.fail = "none") =>
        LET start == result.filterInfo.start
            end   == result.filterInfo.end
        IN  /\ result.salesByPeriod.defined
            /\ result.salesByPeriod.series =
                    IF IsDailyWindow(start, end)
                    THEN GaplessSalesDays(start, end)
                    ELSE GaplessSalesMonths(start, end)

\* The primary period by the first matching rule: month and year without
\* explicit dates, a named token, explicit dates, the trailing 30 days.
ResolvedByOrder(filters) ==
    LET my     == getMonthYearRange(filters.month, filters.year)
        custom == parseDateRange(toISODate(filters.startDate), toISODate(filters.endDate))
    IN  IF /\ filters.given /\ filters.month # 0 /\ filters.year # 0
           /\ filters.startDate = NoDate /\ filters.endDate = NoDate
        THEN [start |-> my.start, end |-> my.end]
        ELSE IF /\ filters.given
                /\ filters.dateRange \in {"today", "this_month", "7d", "30d", "90d", "1y"}
        THEN [start |-> DateRangeToken(filters.dateRange).start,
              end   |-> DateRangeToken(filters.dateRange).end]
        ELSE IF filters.given /\ filters.startDate # NoDate /\ filters.endDate # NoDate
        THEN [start |-> custom.start, end |-> custom.end]
        ELSE [start |-> now - 30 * TicksPerDay, end |-> now]

\* C6: the primary period of a request is the one given by the first rule
\* that matches: (1) month and year when no explicit date is given, (2) a
\* token among today, this_month, 7d, 30d, 90d, 1y, (3) explicit startDate
\* and endDate, (4) the trailing 30 days ending now.
C6_FilterResolutionOrder ==
    Answered => result.filterInfo = ResolvedByOrder(call.filters)

\* The window that ends right before [start, end] starts and is as long.
Preceding(start, end) ==
    [start |-> start - (end - start + 1), end |-> start - 1]

\* C7: under a dateRange token or a custom range, the four deltas compare
\* the primary period with the window of the same duration that ends
\* immediately before the primary period starts.
C7_PreviousPeriodEqualDuration ==
    (/\ Answered
     /\ call.fail = "none"
     /\ call.filters.given
     /\ call.filters.month = 0
     /\ \/ call.filters.dateRange \in {"today", "this_month", "7d", "30d", "90d", "1y"}
        \/ /\ call.filters.dateRange = ""
           /\ call.filters.startDate # NoDate
           /\ call.filters.endDate # NoDate)
    => LET previous == Preceding(result.filterInfo.start, result.filterInfo.end)
           prevTx   == BaseFilter(call.filters, previous)
       IN  result.vsPreviousPeriod =
               PercentageDeltas(SumTx(prevTx), Cardinality(prevTx),
                                SumExp(SpentIn(previous.start, previous.end)),
                                result.totalSales, result.totalTransactions,
                                result.totalExpenses)

\* The sub-metrics with their own aggregation: the ranked list, the two
\* breakdown maps and the three series.
SubMetrics ==
    {"topProducts", "paymentMethods", "orderSources",
     "salesByPeriod", "salesByMonth", "expenseSeries"}

\* The payload with the sub-metric of the failed aggregation emptied.
Emptied(payload, fail) ==
    CASE fail = "topProducts"    -> [payload EXCEPT !.topProducts = <<>>]
      [] fail = "paymentMethods" -> [payload EXCEPT !.paymentMethods = <<>>]
      [] fail = "orderSources"   -> [payload EXCEPT !.orderSources = <<>>]
      [] fail = "salesByPeriod"  -> [payload EXCEPT !.salesByPeriod.series = <<>>]
      [] fail = "salesByMonth"   -> [payload EXCEPT !.salesByMonth = <<>>]
      [] fail = "expenseSeries"  -> [payload EXCEPT !.expensesByPeriod = <<>>]

\* C9: when the aggregation behind one ranked list, breakdown map or series
\* fails, the request still returns a payload: that sub-metric is empty and
\* the rest is what the request returns without the failure.
C9_SubMetricFailureIsolated ==
    (call.op = "getDashboardMetrics" /\ call.fail \in SubMetrics) =>
        /\ result.ok
        /\ result = Emptied(getDashboardMetrics(call.filters, "none", call.nullLast),
                            call.fail)

\* C10: the top-products list is the ranking of the very transactions that
\* make up totalSales: those of the primary period with the request's
\* status, payment-method and order-source filters.
C10_TopProductsOverSalesSet ==
    (Answered /\ call.fail = "none") =>
        result.topProducts =
            TopProductsOf(CountedIn(call.filters, result.filterInfo.start,
                                    result.filterInfo.end), 5)

---------------------------------------------------------------------------
(* Claims about the percentage computations *)

\* r (in hundredths of a percent) is ((current - previous) / previous) * 100
\* rounded to 2 decimals, 100 for a rise from 0 and 0 otherwise from 0.
IsPctChange(previous, current, r) ==
    IF previous = 0
    THEN r = (IF current > 0 THEN 10000 ELSE 0)
    ELSE 2 * Abs(r * previous - (current - previous) * 10000) <= Abs(previous)

\* C8: calculatePercentageChange returns the percentage change rounded to 2
\* decimals, 100 from 0 to a positive value and 0 from 0 otherwise, with
\* pctChange(0,0)=0, (0,50)=100, (100,150)=50.00, (200,100)=-50.00, and the
\* sales, expenses, profit and transaction-count deltas follow that rule.
C8_PercentageChangeRule ==
    /\ call.op = "calculatePercentageChange" =>
          /\ IsPctChange(call.oldValue, call.newValue, result)
          /\ (call.oldValue = 0 /\ call.newValue = 0) => result = 0
          /\ (call.oldValue = 0 /\ call.newValue = 50) => result = 10000
          /\ (call.oldValue = 100 /\ call.newValue = 150) => result = 5000
          /\ (call.oldValue = 200 /\ call.newValue = 100) => result = -5000
    /\ call.op = "percentageDeltas" =>
          /\ IsPctChange(call.previousSales, call.currentSales,
                         result.salesVsPreviousPeriod)
          /\ IsPctChange(call.previousExpenses, call.currentExpenses,
                         result.expensesVsPreviousPeriod)
          /\ IsPctChange(call.previousSales - call.previousExpenses,
                         call.currentSales - call.currentExpenses,
                         result.profitVsPreviousPeriod)
          /\ IsPctChange(call.previousTransactions, call.currentTransactions,
                         result.transactionsVsPreviousPeriod)

\* A change that needs rounding has been computed: 7 -> 9 is 28.57 %.
C8_Witness ==
    /\ call.op = "calculatePercentageChange"
    /\ call.oldValue = 7 /\ call.newValue = 9
    /\ result = 2857

---------------------------------------------------------------------------
(* Claims about today's sales and the counted statuses *)

HasCountedStatus(filters, t) ==
    IF filters.given /\ filters.status \notin {"", "all"}
    THEN t.status = filters.status
    ELSE t.status \in {"completed", "pending"}

\* The transactions of a window under the status rule and the request's
\* payment-method and order-source conditions.
CountedWithSource(filters, window) ==
    {t \in transactions :
        /\ HasCountedStatus(filters, t)
        /\ PaymentCond(filters, t)
        /\ OrderSourceCond(filters, t)
        /\ InWindow(t.created_at, window.start, window.end)}

YesterdayRange ==
    [start |-> getTodayRange.start - TicksPerDay, end |-> getTodayRange.end - TicksPerDay]

\* C12: every transaction aggregation of a dashboard request (totals, today,
\* this month, growth rate, previous-period deltas, day-over-day deltas,
\* sales by month, top products) counts the transactions whose status is
\* pending or completed when the caller names no status, a call without any
\* filters included, and those of the named status otherwise.
C12_CountedStatusesEverywhere ==
    (Answered /\ call.fail = "none") =>
        LET filters == call.filters
            growth  == GrowthRateWindows(filters)
            prev    == PreviousPeriodWindows(filters)
        IN  /\ result.totalSales =
                    SumTx(CountedIn(filters, result.filterInfo.start,
                                    result.filterInfo.end))
            /\ result.todaySales =
                    SumTx(CountedIn(filters, getTodayRange.start, getTodayRange.end))
            /\ result.monthlySales =
                    SumTx(CountedIn(filters, MonthRange(filters).start,
                                    MonthRange(filters).end))
            /\ result.growthRate =
                    calculatePercentageChange(
                        SumTx(CountedWithSource(filters, growth.previous)),
                        SumTx(CountedWithSource(filters, growth.current)))
            /\ prev.ok =>
                    result.vsPreviousPeriod.salesVsPreviousPeriod =
                        calculatePercentageChange(
                            SumTx(CountedWithSource(filters, prev.previous)),
                            result.totalSales)
            /\ result.vsYesterday.salesVsYesterday =
                    calculatePercentageChange(
                        SumTx(CountedWithSource(filters, YesterdayRange)),
                        SumTx(CountedWithSource(filters, getTodayRange)))
            /\ result.vsYesterday.transactionsVsYesterday =
                    calculatePercentageChange(
                        Cardinality(CountedWithSource(filters, YesterdayRange)),
                        Cardinality(CountedWithSource(filters, getTodayRange)))
            /\ \A t \in SalesByMonthMatch(filters) \cup TopProductsMatch(filters) :
                    HasCountedStatus(filters, t)

---------------------------------------------------------------------------
(* Claims about the response cache *)

\* C13: a failure of the cache read or of the cache write is never surfaced
\* by getDashboardMetrics: after a failed read the request returns what a
\* miss computes from the ledgers, and after a failed write it still returns
\* the metrics it computed.
C13_CacheFailureNotSurfaced ==
    (call.op = "getDashboardMetrics" /\ (call.read = "fail" \/ call.write = "fail")) =>
        \/ call.hit /\ call.read = "ok"
        \/ result = getDashboardMetrics(call.filters, call.fail, call.nullLast)

\* A request whose read and write both fail while the cache holds an older,
\* different payload under its key: it returns a freshly computed payload.
C13_Witness ==
    /\ call.op = "getDashboardMetrics"
    /\ call.read = "fail" /\ call.write = "fail"
    /\ result.ok
    /\ \E e \in cache :
            /\ e.key = CacheKey(call.storeId, call.filters)
            /\ e.age > 0
            /\ e.value # result

\* C14: a payload served from the cache is the one an earlier call assembled
\* for the same storeId and the same serialized filter object and stored at
\* most CacheTtl seconds before, never one of another store or filter, and
\* the call that is served from the cache queries no ledger.
C14_CacheHitServesStoredPayload ==
    (call.op = "getDashboardMetrics" /\ call.hit) =>
        /\ ~call.aggregated
        /\ \E e \in cache :
                /\ result = e.value
                /\ e.storeId = call.storeId
                /\ Serialize(e.filters) = Serialize(call.filters)
                /\ e.age <= CacheTtl

\* A hit on an entry stored AgeStep seconds ago, after which a sale was
\* saved: the served payload is not what the ledgers would give now.
C14_Witness ==
    /\ call.op = "getDashboardMetrics" /\ call.hit
    /\ result.ok
    /\ result # getDashboardMetrics(call.filters, "none", FALSE)
    /\ \E e \in cache : e.value = result /\ e.age = AgeStep /\ e.storeId = "store-1"

---------------------------------------------------------------------------
(* Claims about the payment-method breakdown *)

\* The bucket of a stored payment method: the alias lists, and any other
\* method under its own lower-cased name ('unknown' when missing).
MethodBucket(method) ==
    CASE method \in {"card", "Card", "pos", "bank_card", "debit_card", "credit_card"}
            -> "pos"
      [] method \in {"transfer", "naira_transfer", "bank_transfer"} -> "naira_transfer"
      [] method \in {"crypto", "crypto_payment"} -> "crypto_payment"
      [] method \in {"cash_on_delivery", "cod", "cash", "CASH"} -> "cash"
      [] method = "" -> "unknown"
      [] OTHER -> method

RECURSIVE SumValues(_)
\* The sum of the values of a map.
SumValues(f) ==
    IF DOMAIN f = {} THEN 0
    ELSE LET k == CHOOSE x \in DOMAIN f : TRUE
         IN  f[k] + SumValues([x \in DOMAIN f \ {k} |-> f[x]])

\* C15: in the paymentMethods map of a payload the value of a key is the sum
\* of total_amount over all the transactions of the primary-period-filtered
\* set (not only the ten recent ones) whose payment method normalises to
\* that key, several aliases of one method being merged into one entry, and
\* the values add up to totalSales.
C15_PaymentMethodsBreakdown ==
    Answered =>
        LET sales == CountedIn(call.filters, result.filterInfo.start,
                               result.filterInfo.end)
        IN  /\ DOMAIN result.paymentMethods =
                    {MethodBucket(t.payment_method) : t \in sales}
            /\ \A k \in DOMAIN result.paymentMethods :
                    result.paymentMethods[k] =
                        SumTx({t \in sales : MethodBucket(t.payment_method) = k})
            /\ SumValues(result.paymentMethods) = result.totalSales

\* A payload over more than ten sales, with the aliases card, Card, pos and
\* debit_card merged under 'pos' and cash, CASH, cod and cash_on_delivery
\* under 'cash'.
C15_Witness ==
    /\ Answered
    /\ ~call.filters.given
    /\ result.totalTransactions = 15
    /\ Len(result.recentTransactions) = 10
    /\ result.paymentMethods["pos"] = 80 + 90 + 12 + 19
    /\ result.paymentMethods["cash"] = 100 + 11 + 16 + 21
    /\ result.paymentMethods["unknown"] = 17

---------------------------------------------------------------------------
(* Claims about the utility functions *)

\* The alias lists of the payment methods.
AliasBucket(key) ==
    CASE key \in {"card", "pos", "bank_card", "debit_card", "credit_card"} -> "pos"
      [] key \in {"transfer", "naira_transfer", "bank_transfer"} -> "naira_transfer"
      [] key \in {"crypto", "crypto_payment"} -> "crypto_payment"
      [] key \in {"cash_on_delivery", "cod", "cash"} -> "cash"
      [] OTHER -> key

Aliases ==
    {"card", "pos", "bank_card", "debit_card", "credit_card", "transfer",
     "naira_transfer", "bank_transfer", "crypto", "crypto_payment",
     "cash_on_delivery", "cod", "cash"}

\* C16 as stated: normalizePaymentMethod is idempotent, maps the names of
\* the four alias lists to pos, naira_transfer, crypto_payment and cash, and
\* maps every other value to itself lower-cased.
C16_NormalizeAsStated ==
    call.op = "normalizePaymentMethod" =>
        /\ normalizePaymentMethod(result) = result
        /\ result = IF call.method \in Aliases THEN AliasBucket(call.method)
                    ELSE ToLowerCase(call.method)

\* C16: normalizePaymentMethod is idempotent; it trims and lower-cases its
\* input, a missing or empty input counting as 'unknown', and maps the
\* resulting key through the four alias lists, any other key to itself and
\* a key left empty by the trimming to 'unknown'.
C16_NormalizeTrimmedLowerCased ==
    call.op = "normalizePaymentMethod" =>
        LET given == IF call.method = "" THEN "unknown" ELSE call.method
            key   == ToLowerCase(Trim(given))
        IN  /\ normalizePaymentMethod(result) = result
            /\ result = IF key = "" THEN "unknown" ELSE AliasBucket(key)

\* A padded, capitalised alias was normalised to its bucket.
C16_Witness ==
    /\ call.op = "normalizePaymentMethod"
    /\ call.method = " Cash "
    /\ result = "cash"

\* C18: getTodayRange returns the range from midnight of the current
\* calendar day of the store's timezone to one tick (1 ms) before the next
\* midnight there, whatever the timezone of the server process is.
C18_TodayInStoreTimezone ==
    call.op = "getTodayRange" =>
        LET midnight == DayOf(now, StoreOffset) * TicksPerDay - StoreOffset
        IN  result = [start |-> midnight, end |-> midnight + TicksPerDay - 1]

\* What the claim calls malformed: a missing string, a non-numeric
\* component, a year outside 1900..2100, a month outside 1..12 or a day the
\* month does not have.
Malformed(str) ==
    \/ str.empty
    \/ str.nan # {}
    \/ str.y < 1900 \/ str.y > 2100
    \/ str.m < 1 \/ str.m > 12
    \/ str.d < 1 \/ str.d > DaysInMonth(str.y, str.m)

\* C19: parseDateRange returns null when either string is missing or
\* malformed, and otherwise the range from the start of the start day to the
\* end (23:59:59.999) of the end day; it never throws.
C19_ParseDateRangeNullOnMalformed ==
    call.op = "parseDateRange" =>
        LET s == call.startDateStr
            e == call.endDateStr
        IN  result = IF Malformed(s) \/ Malformed(e) THEN [ok |-> FALSE]
                     ELSE [ok    |-> TRUE,
                           start |-> MakeLocal(DayIndex(s.y, s.m, s.d), 0),
                           end   |-> MakeLocal(DayIndex(e.y, e.m, e.d), EndOfDayTick)]

\* The number of days of a month of the Gregorian calendar.
CalendarDays(month, year) ==
    CASE month \in {1, 3, 5, 7, 8, 10, 12} -> 31
      [] month \in {4, 6, 9, 11} -> 30
      [] month = 2 /\ year % 4 = 0 /\ (year % 100 # 0 \/ year % 400 = 0) -> 29
      [] OTHER -> 28

\* C20: getMonthYearRange throws for a month outside 1..12 or a year outside
\* 1900..2100, and otherwise returns the range from 00:00:00.000 of the
\* first day of the month to 23:59:59.999 of its last calendar day (28, 29,
\* 30 or 31, leap years included).
C20_MonthYearRange ==
    call.op = "getMonthYearRange" =>
        IF call.month \notin 1..12 \/ call.year \notin 1900..2100
        THEN ~result.ok
        ELSE /\ result.ok
             /\ result.start = MakeLocal(DayIndex(call.year, call.month, 1), 0)
             /\ result.end =
                    MakeLocal(DayIndex(call.year, call.month,
                                       CalendarDays(call.month, call.year)),
                              EndOfDayTick)
             /\ result.end - result.start = CalendarDays(call.month, call.year) * TicksPerDay - 1

\* February of the leap year 2024 was asked for: the range ends on the 29th.
C20_Witness ==
    /\ call.op = "getMonthYearRange"
    /\ call.month = 2 /\ call.year = 2024
    /\ result.ok
    /\ YMD(ServerDay(result.end)) = [y |-> 2024, m |-> 2, d |-> 29]

---------------------------------------------------------------------------
(* Claims about the previous period of a month/year filter *)

\* The calendar month before (month, year), from its first midnight to the
\* last tick of its last day.
PriorCalendarMonth(month, year) ==
    LET k == MonthIdx(year, month) - 1
    IN  [start |-> MakeLocal(MonthStart[k], 0),
         end   |-> MakeLocal(MonthStart[k + 1] - 1, EndOfDayTick),
         month |-> MonthNum(k), year |-> MonthYear(k)]

\* C17: with a month/year filter the period-over-period deltas compare with
\* the prior calendar month, which for month 1 is December of the year
\* before: the sales and transaction deltas of the payload are the changes
\* from that month's totals to the totals of the request.
C17_PreviousPeriodIsPriorMonth ==
    (/\ Answered
     /\ call.fail = "none"
     /\ call.filters.month # 0 /\ call.filters.year # 0) =>
        LET prior == PriorCalendarMonth(call.filters.month, call.filters.year)
            sold  == CountedWithSource(call.filters, prior)
        IN  /\ result.vsPreviousPeriod.salesVsPreviousPeriod =
                    calculatePercentageChange(SumTx(sold), result.totalSales)
            /\ result.vsPreviousPeriod.transactionsVsPreviousPeriod =
                    calculatePercentageChange(Cardinality(sold),
                                              result.totalTransactions)
            /\ result.vsPreviousPeriod.expensesVsPreviousPeriod =
                    calculatePercentageChange(
                        SumExp(SpentIn(prior.start, prior.end)),
                        result.totalExpenses)

\* January 2025 was asked for: the 470 of January are compared with the 60
\* of December 2024, a rise of 683.33 percent.
C17_Witness ==
    /\ Answered
    /\ call.fail = "none"
    /\ call.filters.month = 1 /\ call.filters.year = 2025
    /\ PriorCalendarMonth(1, 2025).month = 12
    /\ PriorCalendarMonth(1, 2025).year = 2024
    /\ result.totalSales = 470
    /\ result.vsPreviousPeriod.salesVsPreviousPeriod = 68333

---------------------------------------------------------------------------
(* Claims about the expense documents *)

\* C21: after any sequence of createExpense and updateExpense, every stored
\* expense with quantity > 0 and an amount set has cost_per_unit equal to
\* amount / quantity, and an expense without a positive quantity has no
\* cost_per_unit.
C21_CostPerUnitInvariant ==
    \A e \in expenses :
        /\ (e.quantity > 0 /\ e.amount > 0) =>
                /\ e.cost_per_unit.defined
                /\ e.cost_per_unit.n * e.quantity = e.amount * e.cost_per_unit.d
        /\ e.quantity = 0 => ~e.cost_per_unit.defined

---------------------------------------------------------------------------
(* Claims about the price monitoring *)

\* Two quotients that are the same number.
SameNumber(a, b) == a.defined /\ b.defined /\ a.n * b.d = b.n * a.d

\* A matched product with a positive cost_price and an expense with a cost
\* per unit.
PricedAgainstCost ==
    /\ call.op = "checkPriceChange"
    /\ call.match.matched
    /\ call.match.product.cost_price > 0
    /\ call.expense.quantity > 0 /\ call.expense.amount > 0

\* C22: for a matched product with positive cost_price c and positive markup
\* m and a cost per unit u = amount / quantity that changed significantly,
\* priceChangePercentage is |u - c| / c * 100 and suggestedSellingPrice is
\* u * (1 + m / 100).
C22_PriceChangeNumbers ==
    (/\ PricedAgainstCost
     /\ call.match.product.markup_percentage > 0
     /\ result.hasPriceChange) =>
        LET c == call.match.product.cost_price
            m == call.match.product.markup_percentage
            q == call.expense.quantity
            a == call.expense.amount
            p == result.priceChangePercentage
            s == result.suggestedSellingPrice
        IN  /\ p.defined /\ s.defined
            /\ Lowest(p.n, p.d)
                 = Lowest((IF a >= c * q THEN a - c * q ELSE c * q - a) * 100, c * q)
            /\ Lowest(s.n, s.d) = Lowest(a * (100 + m), q * 100)

\* Quantity 10 and amount 125.00 against cost 10.00, price 15.00 and markup
\* 50 percent: cost per unit 12.50, a change of 25 percent, suggested 18.75.
C22_Witness ==
    /\ call.op = "checkPriceChange"
    /\ call.expense = [quantity |-> 10, amount |-> 12500]
    /\ call.match.matched
    /\ call.match.product = [cost_price |-> 1000, price |-> 1500, markup_percentage |-> 50]
    /\ result.hasPriceChange
    /\ SameNumber(result.newCostPrice, Quotient(1250, 1))
    /\ SameNumber(result.priceChangePercentage, Quotient(25, 1))
    /\ SameNumber(result.suggestedSellingPrice, Quotient(1875, 1))

\* C23: for a matched product with a positive cost_price, a price change is
\* flagged if and only if the cost per unit differs from the cost_price by
\* more than 1 percent; a smaller change yields no suggested selling price.
C23_FlaggedIffMoreThanOnePercent ==
    PricedAgainstCost =>
        LET c == call.match.product.cost_price
            q == call.expense.quantity
            a == call.expense.amount
            difference == IF a >= c * q THEN a - c * q ELSE c * q - a
        IN  /\ result.hasPriceChange <=> (difference * 100 > c * q)
            /\ ~result.hasPriceChange => ~result.suggestedSellingPrice.defined

---------------------------------------------------------------------------
(* Claims about the resolution of the period *)

\* C25: a request whose month is out of range (month 13), with a year and
\* without startDate and endDate, falls through to the other options of the
\* period and is answered with a payload when nothing else fails.
C25_OutOfRangeMonthAnswered ==
    (/\ call.op = "getDashboardMetrics"
     /\ call.filters.given
     /\ call.filters.month \notin 0..12 /\ call.filters.year # 0
     /\ call.filters.startDate = NoDate /\ call.filters.endDate = NoDate
     /\ call.fail = "none") => result.ok

---------------------------------------------------------------------------
(* Claims about the dashboard route *)

\* C26: identical dashboard requests (same store, query and user) less than
\* 5 seconds apart, those arriving while the first is computed included,
\* lead to one call of getDashboardMetrics at most.
C26_OneCallPerFiveSeconds ==
    \A i, j \in 1..Len(requests) :
        (/\ i < j
         /\ requests[i].key = requests[j].key
         /\ requests[j].at - requests[i].at < CACHE_DURATION)
            => ~(/\ requests[i].served = "getDashboardMetrics"
                 /\ requests[j].served = "getDashboardMetrics")

---------------------------------------------------------------------------
(* Claims about the monthly chart *)

\* The current month in the store's timezone.
CurrentMonth == MonthOfDay(DayOf(now, StoreOffset))

\* C24: salesByMonth holds only months among the trailing 12 calendar months
\* that end with the current month in the store's timezone, hence 12
\* entries at most, whatever the primary period of the request.
C24_SalesByMonthTrailingTwelve ==
    Answered =>
        /\ \A i \in DOMAIN result.salesByMonth :
                \E k \in (CurrentMonth - 11)..CurrentMonth :
                    result.salesByMonth[i].month = YM(k)
        /\ Len(result.salesByMonth) <= 12

---------------------------------------------------------------------------
(* Claims about the order sources *)

\* C28: in the orderSources map the transactions without order_source are
\* counted under 'in-store' together with those whose order_source is
\* 'in-store', and the values of the map add up to totalSales.
C28_OrderSourcesBreakdown ==
    Answered =>
        LET sales   == CountedIn(call.filters, result.filterInfo.start,
                                 result.filterInfo.end)
            inStore == {t \in sales : t.order_source \in {"", "in-store"}}
        IN  /\ inStore # {} =>
                    /\ "in-store" \in DOMAIN result.orderSources
                    /\ result.orderSources["in-store"] = SumTx(inStore)
            /\ SumValues(result.orderSources) = result.totalSales

---------------------------------------------------------------------------
(* Claims about the sign of a percentage change *)

\* The sign of a change agrees with the direction from previous to current.
SignMatches(previous, current, change) ==
    /\ current > previous => change > 0
    /\ current < previous => change < 0
    /\ current = previous => change = 0

\* C29: for every pair of a previous and a current value, negative profits
\* included, the change calculatePercentageChange returns is positive when
\* current > previous, negative when current < previous and 0 when they are
\* equal; so is the profit delta computed from the totals of two periods.
C29_SignMatchesDirection ==
    /\ call.op = "calculatePercentageChange" =>
            SignMatches(call.oldValue, call.newValue, result)
    /\ call.op = "percentageDeltas" =>
            SignMatches(call.previousSales - call.previousExpenses,
                        call.currentSales - call.currentExpenses,
                        result.profitVsPreviousPeriod)

---------------------------------------------------------------------------
(* Claims about the order of a range *)

\* C30: every non-null range that parseDateRange returns, which is also the
\* primary period resolved from an explicit startDate and endDate, has its
\* start at or before its end.
C30_RangeStartNotAfterEnd ==
    (call.op = "parseDateRange" /\ result.ok) => result.start <= result.end

---------------------------------------------------------------------------
(* Claims about the sums of the period series *)

RECURSIVE SumAmount(_)
\* The amounts of an expense series added up.
SumAmount(series) ==
    IF series = <<>> THEN 0 ELSE series[1].amount + SumAmount(Tail(series))

RECURSIVE SumRevenue(_)
\* The revenues of a sales series added up.
SumRevenue(series) ==
    IF series = <<>> THEN 0 ELSE series[1].revenue + SumRevenue(Tail(series))

\* C27: in every payload the amounts of expensesByPeriod add up to
\* totalExpenses, and the revenues of a salesByPeriod series over the primary
\* period add up to the revenue of that window (the counted sales in it): no
\* record is dropped for want of a bucket key.
C27_SeriesAddUp ==
    (Answered /\ call.fail = "none") =>
        /\ SumAmount(result.expensesByPeriod) = result.totalExpenses
        /\ (result.salesByPeriod.defined /\ getDateFilter(call.filters).ok) =>
                SumRevenue(result.salesByPeriod.series) =
                    SumTx({t \in transactions :
                            /\ t.status \in {"completed", "pending"}
                            /\ InWindow(t.created_at, result.filterInfo.start,
                                        result.filterInfo.end)})

===========================================================================
